---- MODULE Spec2Model ----
(***************************************************************************)
(* The reward accumulator of osmoutils/accum: the helpers of               *)
(* accum_helpers.go (initOrUpdatePosition, getPosition, getTotalRewards,   *)
(* validateAccumulatorValue) over sdk.Dec / sdk.DecCoins arithmetic, and   *)
(* the position lifecycle (create / add / remove / claim / increase value  *)
(* / administrative override) that drives them.                            *)
(***************************************************************************)
EXTENDS Integers, Sequences, FiniteSets, TLC

(***************************************************************************)
(* Bounds of the model.                                                    *)
(***************************************************************************)
\* Decimal digits kept by a Dec (sdk.Dec keeps 18; the model keeps fewer).
Precision == 1
\* Successful IncreaseValue calls explored in one behaviour.
MaxIncreases == 2
\* Cap on the accumulator's total shares, in half shares.
MaxTotalHalfShares == 4
\* Cap on the total shares, in whole shares, when the two concrete
\* scenarios (positions of 100 shares) are explored.
ScenarioMaxShares == 200

(***************************************************************************)
(* sdk.Dec: a fixed-point decimal, held as the integer value * 10^Precision *)
(***************************************************************************)
Scale == 10 ^ Precision

Abs(x) == IF x < 0 THEN -x ELSE x

\* Dec.Mul's rounding: remove Precision digits, half-way cases to even,
\* on the absolute value, sign restored afterwards.
chopPrecisionAndRound(x) ==
  LET q == Abs(x) \div Scale
      r == Abs(x) % Scale
      rounded == IF 2 * r < Scale THEN q
                 ELSE IF 2 * r > Scale THEN q + 1
                 ELSE IF q % 2 = 0 THEN q ELSE q + 1
  IN  IF x < 0 THEN -rounded ELSE rounded

DecMul(a, b) == chopPrecisionAndRound(a * b)

(***************************************************************************)
(* sdk.DecCoins: denomination -> non-zero Dec; a denomination whose amount *)
(* is zero is not in the set.                                              *)
(***************************************************************************)
Denoms == {"uX", "uY"}

EmptyCoins == [d \in {} |-> 0]

\* The amount of denomination d in coins (zero when absent).
AmountOf(coins, d) == IF d \in DOMAIN coins THEN coins[d] ELSE 0

\* DecCoins.safeAdd: merge by denomination, zero results dropped.
safeAdd(coins, coinsB) ==
  LET S(d) == AmountOf(coins, d) + AmountOf(coinsB, d)
  IN  [d \in {x \in (DOMAIN coins) \cup (DOMAIN coinsB) : S(x) # 0} |-> S(d)]

Add(coins, coinsB) == safeAdd(coins, coinsB)

negative(coins) == [d \in DOMAIN coins |-> -coins[d]]

IsAnyNegative(coins) == \E d \in DOMAIN coins : coins[d] < 0

\* DecCoins.SafeSub: the difference and whether any of it is negative.
SafeSub(coins, coinsB) ==
  LET diff == safeAdd(coins, negative(coinsB))
  IN  [diff |-> diff, hasNeg |-> IsAnyNegative(diff)]

\* DecCoins.Sub panics ("negative coin amount") when SafeSub reports a
\* negative amount.
Sub(coins, coinsB) ==
  LET r == SafeSub(coins, coinsB)
  IN  [panic |-> r.hasNeg, coins |-> r.diff]

\* DecCoins.MulDec: every amount times d, zero products dropped.
MulDec(coins, dec) ==
  [d \in {x \in DOMAIN coins : DecMul(coins[x], dec) # 0} |->
      DecMul(coins[d], dec)]

(***************************************************************************)
(* The store and the helpers of accum_helpers.go.                          *)
(***************************************************************************)
AccumName == "acc"

\* Faulty variant of formatPositionPrefixKey: the accumulator's name is not
\* part of the key.
formatPositionPrefixKeyIgnoresName(name, index) ==
  <<"acc", index>>

formatPositionPrefixKey(name, index) ==
  <<name, index>>

\* The accumulators that share one store.
Accums == {AccumName, "other"}

EmptyStore == [k \in {} |-> 0]

\* Faulty variant of MustSet: the other keys of the store are lost.
MustSetClears(st, key, value) == [k \in {key} |-> value]

\* osmoutils.MustSet
MustSet(st, key, value) ==
  [k \in (DOMAIN st) \cup {key} |-> IF k = key THEN value ELSE st[k]]

\* Deleting a key from the store.
Delete(st, key) == [k \in (DOMAIN st) \ {key} |-> st[k]]

Record(numShares, initAccumValue, unclaimedRewards, options) ==
  [NumShares |-> numShares, InitAccumValue |-> initAccumValue,
   UnclaimedRewards |-> unclaimedRewards, Options |-> options]

EmptyRecord == Record(0, EmptyCoins, EmptyCoins, "nil")

\* Faulty variants of initOrUpdatePosition: the unclaimed rewards are not
\* written; the snapshot of the accumulator's value is not written; the key's
\* two parts are given in the wrong order.
initOrUpdatePositionDropsUnclaimed(st, name, accumulatorValue, index, numShareUnits, unclaimedRewards, options) ==
  MustSet(st, formatPositionPrefixKey(name, index),
          Record(numShareUnits, accumulatorValue, EmptyCoins, options))

initOrUpdatePositionNoSnapshot(st, name, accumulatorValue, index, numShareUnits, unclaimedRewards, options) ==
  MustSet(st, formatPositionPrefixKey(name, index),
          Record(numShareUnits, EmptyCoins, unclaimedRewards, options))

initOrUpdatePositionSwappedKey(st, name, accumulatorValue, index, numShareUnits, unclaimedRewards, options) ==
  MustSet(st, formatPositionPrefixKey(index, name),
          Record(numShareUnits, accumulatorValue, unclaimedRewards, options))

\* Further faulty variants: an existing record keeps its old snapshot; an
\* existing record is not overwritten; the snapshot and the unclaimed
\* rewards are written to each other's field.
initOrUpdatePositionStaleSnapshot(st, name, accumulatorValue, index, numShareUnits, unclaimedRewards, options) ==
  MustSet(st, formatPositionPrefixKey(name, index),
          Record(numShareUnits,
                 IF formatPositionPrefixKey(name, index) \in DOMAIN st
                   THEN st[formatPositionPrefixKey(name, index)].InitAccumValue
                   ELSE accumulatorValue,
                 unclaimedRewards, options))

initOrUpdatePositionOnlyWhenAbsent(st, name, accumulatorValue, index, numShareUnits, unclaimedRewards, options) ==
  IF formatPositionPrefixKey(name, index) \in DOMAIN st
    THEN st
    ELSE MustSet(st, formatPositionPrefixKey(name, index),
                 Record(numShareUnits, accumulatorValue, unclaimedRewards,
                        options))

initOrUpdatePositionSwappedCoins(st, name, accumulatorValue, index, numShareUnits, unclaimedRewards, options) ==
  MustSet(st, formatPositionPrefixKey(name, index),
          Record(numShareUnits, unclaimedRewards, accumulatorValue, options))

\* A further faulty variant: the record is written under every key of the
\* store.
initOrUpdatePositionWritesAll(st, name, accumulatorValue, index, numShareUnits, unclaimedRewards, options) ==
  [k \in (DOMAIN st) \cup {formatPositionPrefixKey(name, index)} |->
     Record(numShareUnits, accumulatorValue, unclaimedRewards, options)]

\* A further faulty variant: the unclaimed rewards are added to those of
\* an existing record.
initOrUpdatePositionAccumulatesUnclaimed(st, name, accumulatorValue, index, numShareUnits, unclaimedRewards, options) ==
  MustSet(st, formatPositionPrefixKey(name, index),
          Record(numShareUnits, accumulatorValue,
                 IF formatPositionPrefixKey(name, index) \in DOMAIN st
                   THEN Add(st[formatPositionPrefixKey(name, index)]
                              .UnclaimedRewards, unclaimedRewards)
                   ELSE unclaimedRewards,
                 options))

\* A further faulty variant: the options are not written.
initOrUpdatePositionDropsOptions(st, name, accumulatorValue, index, numShareUnits, unclaimedRewards, options) ==
  MustSet(st, formatPositionPrefixKey(name, index),
          Record(numShareUnits, accumulatorValue, unclaimedRewards, "nil"))

\* initOrUpdatePosition: the store after the record is written.
initOrUpdatePosition(st, name, accumulatorValue, index, numShareUnits, unclaimedRewards, options) ==
  MustSet(st, formatPositionPrefixKey(name, index),
          Record(numShareUnits, accumulatorValue, unclaimedRewards, options))

\* Faulty variant of getPosition: the key's two parts are given in the
\* wrong order.
getPositionWrongKey(st, name, index) ==
  IF formatPositionPrefixKey(index, name) \in DOMAIN st
    THEN [err |-> "none", position |-> st[formatPositionPrefixKey(index, name)],
          index |-> index]
    ELSE [err |-> "NoPositionError", position |-> EmptyRecord, index |-> index]

\* Faulty variant of getPosition: a missing record is not reported, the
\* zero record is returned for it.
getPositionIgnoresFound(st, name, index) ==
  IF formatPositionPrefixKey(name, index) \in DOMAIN st
    THEN [err |-> "none", position |-> st[formatPositionPrefixKey(name, index)],
          index |-> index]
    ELSE [err |-> "none", position |-> EmptyRecord, index |-> index]

\* getPosition: the record, or NoPositionError carrying the index.
getPosition(st, name, index) ==
  IF formatPositionPrefixKey(name, index) \in DOMAIN st
    THEN [err |-> "none", position |-> st[formatPositionPrefixKey(name, index)],
          index |-> index]
    ELSE [err |-> "NoPositionError", position |-> EmptyRecord, index |-> index]

\* Faulty variants of getTotalRewards: the position's UnclaimedRewards are
\* left out; the difference is not multiplied by NumShares; InitAccumValue
\* is not subtracted; feeGrowthOutside is not subtracted.
getTotalRewardsDropsUnclaimed(value, position, feeGrowthOutside) ==
  LET d == Sub(value, Add(position.InitAccumValue, feeGrowthOutside))
  IN  [panic |-> d.panic,
       rewards |-> IF d.panic THEN EmptyCoins
                   ELSE MulDec(d.coins, position.NumShares)]

getTotalRewardsNoShares(value, position, feeGrowthOutside) ==
  LET d == Sub(value, Add(position.InitAccumValue, feeGrowthOutside))
  IN  [panic |-> d.panic,
       rewards |-> IF d.panic THEN EmptyCoins
                   ELSE Add(position.UnclaimedRewards, d.coins)]

getTotalRewardsIgnoresInit(value, position, feeGrowthOutside) ==
  LET d == Sub(value, feeGrowthOutside)
  IN  [panic |-> d.panic,
       rewards |-> IF d.panic THEN EmptyCoins
                   ELSE Add(position.UnclaimedRewards,
                            MulDec(d.coins, position.NumShares))]

getTotalRewardsIgnoresGrowth(value, position, feeGrowthOutside) ==
  LET d == Sub(value, position.InitAccumValue)
  IN  [panic |-> d.panic,
       rewards |-> IF d.panic THEN EmptyCoins
                   ELSE Add(position.UnclaimedRewards,
                            MulDec(d.coins, position.NumShares))]

\* A further faulty variant: feeGrowthOutside is added to the growth
\* instead of being taken from it.
getTotalRewardsAddsGrowth(value, position, feeGrowthOutside) ==
  LET d == Sub(Add(value, feeGrowthOutside), position.InitAccumValue)
  IN  [panic |-> d.panic,
       rewards |-> IF d.panic THEN EmptyCoins
                   ELSE Add(position.UnclaimedRewards,
                            MulDec(d.coins, position.NumShares))]

\* A further faulty variant: the difference is taken with SafeSub and a
\* negative amount in it is not noticed.
getTotalRewardsNoPanic(value, position, feeGrowthOutside) ==
  LET d == SafeSub(value, Add(position.InitAccumValue, feeGrowthOutside))
  IN  [panic |-> FALSE,
       rewards |-> Add(position.UnclaimedRewards,
                       MulDec(d.diff, position.NumShares))]

\* A further faulty variant: the rewards accrued since the snapshot are
\* left out.
getTotalRewardsOnlyUnclaimed(value, position, feeGrowthOutside) ==
  LET d == Sub(value, Add(position.InitAccumValue, feeGrowthOutside))
  IN  [panic |-> d.panic,
       rewards |-> IF d.panic THEN EmptyCoins ELSE position.UnclaimedRewards]

\* getTotalRewards: panics when accum.value - (InitAccumValue +
\* feeGrowthOutside) is negative somewhere (DecCoins.Sub), and otherwise
\* returns UnclaimedRewards + that difference times NumShares.
getTotalRewards(value, position, feeGrowthOutside) ==
  LET d == Sub(value, Add(position.InitAccumValue, feeGrowthOutside))
      accumulatorRewards == MulDec(d.coins, position.NumShares)
  IN  [panic |-> d.panic,
       rewards |-> IF d.panic THEN EmptyCoins
                   ELSE Add(position.UnclaimedRewards, accumulatorRewards)]

minusOne == -Scale

\* Faulty variants of validateAccumulatorValue: the difference to the old
\* value is not examined; the subtraction's operands are exchanged.
validateAccumulatorValueSkipsDifference(customAccumulatorValue, oldPositionAccumulatorValue) ==
  IF IsAnyNegative(customAccumulatorValue) THEN "NegativeCustomAccError"
  ELSE "none"

validateAccumulatorValueSwapped(customAccumulatorValue, oldPositionAccumulatorValue) ==
  IF IsAnyNegative(customAccumulatorValue) THEN "NegativeCustomAccError"
  ELSE IF SafeSub(oldPositionAccumulatorValue, customAccumulatorValue).hasNeg
    THEN "NegativeAccDifferenceError"
  ELSE "none"

\* A further faulty variant: the difference is examined before the custom
\* value's own sign.
validateAccumulatorValueDifferenceFirst(customAccumulatorValue, oldPositionAccumulatorValue) ==
  IF SafeSub(customAccumulatorValue, oldPositionAccumulatorValue).hasNeg
    THEN "NegativeAccDifferenceError"
  ELSE IF IsAnyNegative(customAccumulatorValue) THEN "NegativeCustomAccError"
  ELSE "none"

\* validateAccumulatorValue: the error returned ("none" on success).
validateAccumulatorValue(customAccumulatorValue, oldPositionAccumulatorValue) ==
  IF IsAnyNegative(customAccumulatorValue) THEN "NegativeCustomAccError"
  ELSE IF SafeSub(customAccumulatorValue, oldPositionAccumulatorValue).hasNeg
    THEN "NegativeAccDifferenceError"
  ELSE "none"

(***************************************************************************)
(* State.  accValue, totalShares and store are the accumulator and its     *)
(* position records; the rest records the history the properties need.     *)
(***************************************************************************)
VARIABLES
  accValue,     \* accum.value
  totalShares,  \* accum.totalShares
  store,        \* position records by formatPositionPrefixKey(name, index)
  op,           \* the last call: its arguments, error and payout
  sumDeltas,    \* sum of the deltas of the successful IncreaseValue calls
  added,        \* per denomination: sum of delta * totalShares, unrounded
                \* (in units of 1 / Scale^2)
  addedDec,     \* per denomination: sum of delta * totalShares, each
                \* product a Dec multiplication (rounded)
  paid,         \* sum of the payouts of claims and full removals
  numInc,       \* number of successful IncreaseValue calls
  wholeOnly,    \* every share amount created, added or removed was whole
  scn3,         \* calls of Scenario3 matched so far (-1: history differs)
  scn4,         \* calls of Scenario4 matched so far (-1: history differs)
  removed,      \* the indexes whose record was deleted by a full removal
  pc,           \* the e2e configurer: the statement its main goroutine is at
  retry,        \* ConfigureChain: the chain, the loop's i, the attempts made
  file,         \* the init file the chain-init container writes
  wg,           \* CreatePreUpgradeState: the WaitGroup's counter
  workers,      \* the goroutines of the current phase, each one's position
  errCh,        \* the error channel: buffer, closed, all values sent
  ret           \* what the configurer's function returned

vars == <<accValue, totalShares, store, op, sumDeltas, added, addedDec, paid,
          numInc, wholeOnly, scn3, scn4, removed, pc, retry, file, wg,
          workers, errCh, ret>>

\* The state of the e2e configurer, and that of the accumulator library
\* apart from the last call.
configurerVars == <<pc, retry, file, wg, workers, errCh, ret>>

libraryVars ==
  <<accValue, totalShares, store, sumDeltas, added, addedDec, paid, numInc,
    wholeOnly, scn3, scn4, removed>>

\* The main goroutine at statement `at` of phase `phase`, about to start
\* the goroutine `k` of the phase.
At(at, phase, k) == [at |-> at, phase |-> phase, k |-> k]

\* The configurer before ConfigureChains is called.
ConfigurerStart ==
  /\ retry = [chain |-> 1, i |-> 0, attempts |-> << >>]
  /\ file = "absent"
  /\ wg = 0
  /\ workers = << >>
  /\ errCh = [buf |-> << >>, closed |-> FALSE, sent |-> << >>]
  /\ ret = [fn |-> "none", err |-> "nil"]

\* The configurer is not run.
ConfigurerIdle == pc = At("idle", 0, 0) /\ ConfigurerStart

Indexes == {"a", "b"}

OptionsSet == {"nil", "opts"}

Call(name, index, amount, coins, growth) ==
  [name |-> name, index |-> index, amount |-> amount, coins |-> coins,
   growth |-> growth]

NoCall == Call("none", "-", 0, EmptyCoins, EmptyCoins)

Coin(d, amount) == [x \in {d} |-> amount]

\* The two concrete scenarios of the specification's testable properties.
Scenario3 ==
  << Call("CreatePosition", "a", 100 * Scale, EmptyCoins, EmptyCoins),
     Call("IncreaseValue", "-", 0, Coin("uX", 10 * Scale), EmptyCoins),
     Call("CreatePosition", "b", 100 * Scale, EmptyCoins, EmptyCoins),
     Call("IncreaseValue", "-", 0, Coin("uX", 10 * Scale), EmptyCoins),
     Call("ClaimRewards", "a", 0, EmptyCoins, EmptyCoins),
     Call("ClaimRewards", "b", 0, EmptyCoins, EmptyCoins) >>

Scenario4 ==
  << Call("CreatePosition", "a", 100 * Scale, EmptyCoins, EmptyCoins),
     Call("IncreaseValue", "-", 0, Coin("uX", Scale \div 10), EmptyCoins),
     Call("RemoveFromPosition", "a", 40 * Scale, EmptyCoins, EmptyCoins),
     Call("CreatePosition", "b", 40 * Scale, EmptyCoins, EmptyCoins),
     Call("IncreaseValue", "-", 0, Coin("uX", 6 * Scale), EmptyCoins),
     Call("ClaimRewards", "a", 0, EmptyCoins, EmptyCoins) >>

\* Progress through a scenario once `call` has been made.
Advance(script, n, call) ==
  IF n >= 0 /\ n < Len(script) /\ script[n + 1] = call THEN n + 1 ELSE -1

\* The accumulator before any call.
AccumInit ==
  /\ accValue = EmptyCoins
  /\ totalShares = 0
  /\ store = EmptyStore
  /\ op = [call |-> NoCall, err |-> "none", payout |-> EmptyCoins,
           old |-> EmptyCoins]
  /\ sumDeltas = EmptyCoins
  /\ added = [d \in Denoms |-> 0]
  /\ addedDec = [d \in Denoms |-> 0]
  /\ paid = EmptyCoins
  /\ numInc = 0
  /\ wholeOnly = TRUE
  /\ scn3 = 0
  /\ scn4 = 0
  /\ removed = {}

Init == AccumInit /\ ConfigurerIdle

\* The bounds and the history kept while a specification explores the calls:
\* the cap on total shares, the number of successful IncreaseValue calls, and
\* whether the last call (op), the ledgers (sumDeltas, added, paid) and the
\* fully removed indexes (removed) are recorded.
Env(cap, maxInc, recordCall, recordLedger, recordRemoved) ==
  [cap |-> cap, maxInc |-> maxInc, recordCall |-> recordCall,
   recordLedger |-> recordLedger, recordRemoved |-> recordRemoved]

\* What every call records, whatever its outcome.
Called(env, call, err, payout) ==
  /\ op' = IF env.recordCall
             THEN [call |-> call, err |-> err, payout |-> payout,
                   old |-> accValue]
             ELSE op
  /\ scn3' = Advance(Scenario3, scn3, call)
  /\ scn4' = Advance(Scenario4, scn4, call)
  /\ removed' =
       IF /\ env.recordRemoved
          /\ call.name = "RemoveFromPosition" /\ err = "none"
          /\ call.amount
               = store[formatPositionPrefixKey(AccumName, call.index)].NumShares
         THEN removed \cup {call.index}
         ELSE removed
  /\ UNCHANGED configurerVars

\* The ledgers after a call that added `delta` per share and paid `payout`.
Ledger(env, delta, payout) ==
  IF env.recordLedger
    THEN /\ sumDeltas' = Add(sumDeltas, delta)
         /\ added' = [d \in Denoms |->
                        added[d] + AmountOf(delta, d) * totalShares]
         /\ addedDec' = [d \in Denoms |->
                           addedDec[d] + DecMul(AmountOf(delta, d), totalShares)]
         /\ paid' = Add(paid, payout)
    ELSE UNCHANGED <<sumDeltas, added, addedDec, paid>>

\* A call that returns an error (or panics): the transaction is discarded.
Fails(env, call, err) ==
  /\ Called(env, call, err, EmptyCoins)
  /\ UNCHANGED <<accValue, totalShares, store, sumDeltas, added, addedDec,
                 paid, numInc, wholeOnly>>

IsWhole(dec) == dec % Scale = 0

\* Faulty variants of IncreaseValue: the delta is added before the error is
\* returned; the delta is not checked at all.
IncreaseValueAddsThenFails(env, delta) ==
  LET call == Call("IncreaseValue", "-", 0, delta, EmptyCoins) IN
  /\ numInc < env.maxInc
  /\ accValue' = Add(accValue, delta)
  /\ numInc' = numInc + 1
  /\ Ledger(env, delta, EmptyCoins)
  /\ Called(env, call,
            IF IsAnyNegative(delta) THEN "InvalidDeltaError" ELSE "none",
            EmptyCoins)
  /\ UNCHANGED <<totalShares, store, wholeOnly>>

IncreaseValueUnchecked(env, delta) ==
  LET call == Call("IncreaseValue", "-", 0, delta, EmptyCoins) IN
  /\ numInc < env.maxInc
  /\ accValue' = Add(accValue, delta)
  /\ numInc' = numInc + 1
  /\ Ledger(env, delta, EmptyCoins)
  /\ Called(env, call, "none", EmptyCoins)
  /\ UNCHANGED <<totalShares, store, wholeOnly>>

\* Accumulator.IncreaseValue(delta)
IncreaseValue(env, delta) ==
  LET call == Call("IncreaseValue", "-", 0, delta, EmptyCoins) IN
  IF IsAnyNegative(delta)
    THEN Fails(env, call, "InvalidDeltaError")
    ELSE /\ numInc < env.maxInc
         /\ accValue' = Add(accValue, delta)
         /\ numInc' = numInc + 1
         /\ Ledger(env, delta, EmptyCoins)
         /\ Called(env, call, "none", EmptyCoins)
         /\ UNCHANGED <<totalShares, store, wholeOnly>>

\* Faulty variants of CreatePosition: an existing record is overwritten;
\* a share count that is not positive is accepted.
CreatePositionOverwrites(env, index, numShares, options) ==
  LET call == Call("CreatePosition", index, numShares, EmptyCoins, EmptyCoins)
      found == getPosition(store, AccumName, index) IN
  IF numShares <= 0
    THEN Fails(env, call, "ZeroSharesError")
  ELSE /\ totalShares + numShares <= env.cap
       /\ store' = initOrUpdatePosition(store, AccumName, accValue, index,
                                        numShares, EmptyCoins, options)
       /\ totalShares' = totalShares + numShares
       /\ wholeOnly' = (wholeOnly /\ IsWhole(numShares))
       /\ Called(env, call, "none", EmptyCoins)
       /\ UNCHANGED <<accValue, sumDeltas, added, addedDec, paid, numInc>>

CreatePositionAllowsZero(env, index, numShares, options) ==
  LET call == Call("CreatePosition", index, numShares, EmptyCoins, EmptyCoins)
      found == getPosition(store, AccumName, index) IN
  IF found.err = "none"
    THEN Fails(env, call, "DuplicatePositionError")
  ELSE /\ totalShares + numShares <= env.cap
       /\ store' = initOrUpdatePosition(store, AccumName, accValue, index,
                                        numShares, EmptyCoins, options)
       /\ totalShares' = totalShares + numShares
       /\ wholeOnly' = (wholeOnly /\ IsWhole(numShares))
       /\ Called(env, call, "none", EmptyCoins)
       /\ UNCHANGED <<accValue, sumDeltas, added, addedDec, paid, numInc>>

\* CreatePosition(accumulator, index, numShares, options)
CreatePosition(env, index, numShares, options) ==
  LET call == Call("CreatePosition", index, numShares, EmptyCoins, EmptyCoins)
      found == getPosition(store, AccumName, index) IN
  IF found.err = "none"
    THEN Fails(env, call, "DuplicatePositionError")
  ELSE IF numShares <= 0
    THEN Fails(env, call, "ZeroSharesError")
  ELSE /\ totalShares + numShares <= env.cap
       /\ store' = initOrUpdatePosition(store, AccumName, accValue, index,
                                        numShares, EmptyCoins, options)
       /\ totalShares' = totalShares + numShares
       /\ wholeOnly' = (wholeOnly /\ IsWhole(numShares))
       /\ Called(env, call, "none", EmptyCoins)
       /\ UNCHANGED <<accValue, sumDeltas, added, addedDec, paid, numInc>>

\* AddToPosition(accumulator, index, delta, growthOutside)
AddToPosition(env, index, delta, growthOutside) ==
  LET call == Call("AddToPosition", index, delta, EmptyCoins, growthOutside)
      found == getPosition(store, AccumName, index)
      position == found.position
      total == getTotalRewards(accValue, position, growthOutside) IN
  IF found.err # "none"
    THEN Fails(env, call, found.err)
  ELSE IF total.panic
    THEN Fails(env, call, "panic")
  ELSE /\ totalShares + delta <= env.cap
       /\ store' = initOrUpdatePosition(store, AccumName, accValue, index,
                                        position.NumShares + delta,
                                        total.rewards, position.Options)
       /\ totalShares' = totalShares + delta
       /\ wholeOnly' = (wholeOnly /\ IsWhole(delta))
       /\ Called(env, call, "none", EmptyCoins)
       /\ UNCHANGED <<accValue, sumDeltas, added, addedDec, paid, numInc>>

\* Faulty variant of RemoveFromPosition: the delta is not compared with the
\* position's shares.
RemoveFromPositionUnchecked(env, index, delta, growthOutside) ==
  LET call == Call("RemoveFromPosition", index, delta, EmptyCoins,
                   growthOutside)
      found == getPosition(store, AccumName, index)
      position == found.position
      total == getTotalRewards(accValue, position, growthOutside)
      full == position.NumShares = delta
      payout == IF full THEN total.rewards ELSE EmptyCoins IN
  IF found.err # "none"
    THEN Fails(env, call, found.err)
  ELSE IF total.panic
    THEN Fails(env, call, "panic")
  ELSE IF totalShares - delta < 0
    THEN Fails(env, call, "NegativeTotalSharesError")
  ELSE /\ store' = IF full
                     THEN Delete(store,
                                 formatPositionPrefixKey(AccumName, index))
                     ELSE initOrUpdatePosition(store, AccumName, accValue,
                                               index,
                                               position.NumShares - delta,
                                               total.rewards, position.Options)
       /\ totalShares' = totalShares - delta
       /\ wholeOnly' = (wholeOnly /\ IsWhole(delta))
       /\ Ledger(env, EmptyCoins, payout)
       /\ Called(env, call, "none", payout)
       /\ UNCHANGED <<accValue, numInc>>

\* Faulty variant of RemoveFromPosition: a record whose shares reach zero
\* is rewritten, not deleted.
RemoveFromPositionKeepsEmpty(env, index, delta, growthOutside) ==
  LET call == Call("RemoveFromPosition", index, delta, EmptyCoins,
                   growthOutside)
      found == getPosition(store, AccumName, index)
      position == found.position
      total == getTotalRewards(accValue, position, growthOutside)
      full == position.NumShares = delta
      payout == IF full THEN total.rewards ELSE EmptyCoins IN
  IF found.err # "none"
    THEN Fails(env, call, found.err)
  ELSE IF delta > position.NumShares
    THEN Fails(env, call, "InsufficientSharesError")
  ELSE IF total.panic
    THEN Fails(env, call, "panic")
  ELSE IF totalShares - delta < 0
    THEN Fails(env, call, "NegativeTotalSharesError")
  ELSE /\ store' = initOrUpdatePosition(store, AccumName, accValue, index,
                                        position.NumShares - delta,
                                        IF full THEN EmptyCoins
                                        ELSE total.rewards, position.Options)
       /\ totalShares' = totalShares - delta
       /\ wholeOnly' = (wholeOnly /\ IsWhole(delta))
       /\ Ledger(env, EmptyCoins, payout)
       /\ Called(env, call, "none", payout)
       /\ UNCHANGED <<accValue, numInc>>

\* RemoveFromPosition(accumulator, index, delta, growthOutside)
RemoveFromPosition(env, index, delta, growthOutside) ==
  LET call == Call("RemoveFromPosition", index, delta, EmptyCoins,
                   growthOutside)
      found == getPosition(store, AccumName, index)
      position == found.position
      total == getTotalRewards(accValue, position, growthOutside)
      full == position.NumShares = delta
      payout == IF full THEN total.rewards ELSE EmptyCoins IN
  IF found.err # "none"
    THEN Fails(env, call, found.err)
  ELSE IF delta > position.NumShares
    THEN Fails(env, call, "InsufficientSharesError")
  ELSE IF total.panic
    THEN Fails(env, call, "panic")
  ELSE IF totalShares - delta < 0
    THEN Fails(env, call, "NegativeTotalSharesError")
  ELSE /\ store' = IF full
                     THEN Delete(store,
                                 formatPositionPrefixKey(AccumName, index))
                     ELSE initOrUpdatePosition(store, AccumName, accValue,
                                               index,
                                               position.NumShares - delta,
                                               total.rewards, position.Options)
       /\ totalShares' = totalShares - delta
       /\ wholeOnly' = (wholeOnly /\ IsWhole(delta))
       /\ Ledger(env, EmptyCoins, payout)
       /\ Called(env, call, "none", payout)
       /\ UNCHANGED <<accValue, numInc>>

\* ClaimRewards(accumulator, index, growthOutside)
ClaimRewards(env, index, growthOutside) ==
  LET call == Call("ClaimRewards", index, 0, EmptyCoins, growthOutside)
      found == getPosition(store, AccumName, index)
      position == found.position
      total == getTotalRewards(accValue, position, growthOutside) IN
  IF found.err # "none"
    THEN Fails(env, call, found.err)
  ELSE IF total.panic
    THEN Fails(env, call, "panic")
  ELSE /\ store' = initOrUpdatePosition(store, AccumName, accValue, index,
                                        position.NumShares, EmptyCoins,
                                        position.Options)
       /\ Ledger(env, EmptyCoins, total.rewards)
       /\ Called(env, call, "none", total.rewards)
       /\ UNCHANGED <<accValue, totalShares, numInc, wholeOnly>>

\* Faulty variant of SetAccumulatorValueAdmin: the custom value is written
\* before it is validated, and the write is kept when validation fails.
SetAccumulatorValueAdminWritesFirst(env, customValue) ==
  LET call == Call("SetAccumulatorValueAdmin", "-", 0, customValue, EmptyCoins)
      err == validateAccumulatorValue(customValue, accValue) IN
  /\ accValue' = customValue
  /\ Called(env, call, err, EmptyCoins)
  /\ UNCHANGED <<totalShares, store, sumDeltas, added, addedDec, paid,
                 numInc, wholeOnly>>

\* SetAccumulatorValueAdmin(accumulator, customValue)
SetAccumulatorValueAdmin(env, customValue) ==
  LET call == Call("SetAccumulatorValueAdmin", "-", 0, customValue, EmptyCoins)
      err == validateAccumulatorValue(customValue, accValue) IN
  IF err # "none"
    THEN Fails(env, call, err)
    ELSE /\ accValue' = customValue
         /\ Called(env, call, "none", EmptyCoins)
         /\ UNCHANGED <<totalShares, store, sumDeltas, added, addedDec, paid,
                        numInc, wholeOnly>>

(***************************************************************************)
(* Inputs and specifications.                                              *)
(***************************************************************************)
\* Share amounts: half a share and one share (and none, for creation).
ShareAmounts == {Scale \div 2, Scale}

\* Reward deltas per share: the smallest amount of uX with a whole unit of
\* uY, and one that is negative in uY only.
Deltas == { [d \in Denoms |-> IF d = "uX" THEN 1 ELSE Scale],
            [d \in Denoms |-> IF d = "uX" THEN 1 ELSE -Scale] }

\* Growth-outside adjustments supplied by ranged callers.
Growths == { EmptyCoins, Coin("uX", 1) }

\* Replacement values of the administrative override.
CustomValues == { Coin("uX", 2),
                  [d \in Denoms |-> IF d = "uX" THEN 2 ELSE Scale],
                  [d \in Denoms |-> IF d = "uX" THEN -1 ELSE Scale] }

ShareCap == MaxTotalHalfShares * (Scale \div 2)

\* The lifecycle with growthOutside zero and no administrative override.
Lifecycle(env) ==
  \/ \E delta \in Deltas : IncreaseValue(env, delta)
  \/ \E i \in Indexes, n \in ShareAmounts \cup {0} :
        CreatePosition(env, i, n, "nil")
  \/ \E i \in Indexes, n \in ShareAmounts :
        AddToPosition(env, i, n, EmptyCoins)
  \/ \E i \in Indexes, n \in ShareAmounts :
        RemoveFromPosition(env, i, n, EmptyCoins)
  \/ \E i \in Indexes : ClaimRewards(env, i, EmptyCoins)

\* The lifecycle, the last call recorded.
CoreNext == Lifecycle(Env(ShareCap, MaxIncreases, TRUE, FALSE, FALSE))

CoreSpec == Init /\ [][CoreNext]_vars

\* The same, the total shares staying half a share below the cap.
LeanCap == ShareCap - Scale \div 2

LeanNext == Lifecycle(Env(LeanCap, MaxIncreases, TRUE, FALSE, FALSE))

LeanSpec == Init /\ [][LeanNext]_vars

\* The lifecycle, the ledgers recorded.
LedgerNext == Lifecycle(Env(ShareCap, MaxIncreases, FALSE, TRUE, FALSE))

LedgerSpec == Init /\ [][LedgerNext]_vars

\* The lifecycle over whole share amounts, the last call and the fully
\* removed indexes recorded.
RemovalEnv == Env(ShareCap, MaxIncreases, TRUE, FALSE, TRUE)

RemovalNext ==
  \/ \E delta \in Deltas : IncreaseValue(RemovalEnv, delta)
  \/ \E i \in Indexes, n \in {0, Scale} :
        CreatePosition(RemovalEnv, i, n, "nil")
  \/ \E i \in Indexes : AddToPosition(RemovalEnv, i, Scale, EmptyCoins)
  \/ \E i \in Indexes : RemoveFromPosition(RemovalEnv, i, Scale, EmptyCoins)
  \/ \E i \in Indexes : ClaimRewards(RemovalEnv, i, EmptyCoins)

RemovalSpec == Init /\ [][RemovalNext]_vars

\* Everything: options, ranged callers' growthOutside and the administrative
\* override, over whole share amounts.
FullEnv == Env(ShareCap, MaxIncreases, TRUE, FALSE, FALSE)

WholeShares == {Scale}

Next ==
  \/ \E delta \in Deltas : IncreaseValue(FullEnv, delta)
  \/ \E i \in Indexes, n \in WholeShares \cup {0}, o \in OptionsSet :
        CreatePosition(FullEnv, i, n, o)
  \/ \E i \in Indexes, n \in WholeShares, g \in Growths :
        AddToPosition(FullEnv, i, n, g)
  \/ \E i \in Indexes, n \in WholeShares, g \in Growths :
        RemoveFromPosition(FullEnv, i, n, g)
  \/ \E i \in Indexes, g \in Growths : ClaimRewards(FullEnv, i, g)
  \/ \E c \in CustomValues : SetAccumulatorValueAdmin(FullEnv, c)

Spec == Init /\ [][Next]_vars

\* The lifecycle of ranged callers: options and growthOutside over whole
\* share amounts, without the administrative override.
RangedNext ==
  \/ \E delta \in Deltas : IncreaseValue(FullEnv, delta)
  \/ \E i \in Indexes, n \in WholeShares \cup {0}, o \in OptionsSet :
        CreatePosition(FullEnv, i, n, o)
  \/ \E i \in Indexes, n \in WholeShares, g \in Growths :
        AddToPosition(FullEnv, i, n, g)
  \/ \E i \in Indexes, n \in WholeShares, g \in Growths :
        RemoveFromPosition(FullEnv, i, n, g)
  \/ \E i \in Indexes, g \in Growths : ClaimRewards(FullEnv, i, g)

RangedSpec == Init /\ [][RangedNext]_vars

\* The value carried by the error validateAccumulatorValue returns: the
\* custom value in NegativeCustomAccError, the difference times minusOne in
\* NegativeAccDifferenceError (nothing on success).
validateAccumulatorValueCarries(customAccumulatorValue, oldPositionAccumulatorValue) ==
  LET err == validateAccumulatorValue(customAccumulatorValue,
                                      oldPositionAccumulatorValue)
      newValue == SafeSub(customAccumulatorValue,
                          oldPositionAccumulatorValue).diff
  IN  IF err = "NegativeCustomAccError" THEN customAccumulatorValue
      ELSE IF err = "NegativeAccDifferenceError"
        THEN MulDec(newValue, minusOne)
      ELSE EmptyCoins

\* Faulty variant of the call: a value that passes is installed as the
\* accumulator's value.
ValidateInstalls(custom, old) ==
  /\ op' = [call |-> Call("validateAccumulatorValue", "-", 0, custom,
                          EmptyCoins),
            err |-> validateAccumulatorValue(custom, old),
            carried |-> validateAccumulatorValueCarries(custom, old),
            payout |-> EmptyCoins, old |-> old]
  /\ accValue' = IF validateAccumulatorValue(custom, old) = "none"
                   THEN custom ELSE accValue
  /\ UNCHANGED <<totalShares, store, sumDeltas, added, addedDec,
                 paid, numInc, wholeOnly, scn3, scn4, removed,
                 configurerVars>>

\* validateAccumulatorValue applied to a custom and an old value.
Validate(custom, old) ==
  /\ op' = [call |-> Call("validateAccumulatorValue", "-", 0, custom,
                          EmptyCoins),
            err |-> validateAccumulatorValue(custom, old),
            carried |-> validateAccumulatorValueCarries(custom, old),
            payout |-> EmptyCoins, old |-> old]
  /\ UNCHANGED <<accValue, totalShares, store, sumDeltas, added, addedDec,
                 paid, numInc, wholeOnly, scn3, scn4, removed,
                 configurerVars>>

\* Every coin set over the denominations with these amounts, negative ones
\* included.
CoinAmounts == {-1, 1, 2}

CoinSets ==
  UNION {[D -> CoinAmounts] : D \in SUBSET Denoms}

ValidateNext == \E custom \in CoinSets, old \in CoinSets : Validate(custom, old)

ValidateSpec == Init /\ [][ValidateNext]_vars

\* getTotalRewards applied to the accumulator, the stored record of an
\* index and a growthOutside; a panic is recorded as the call's error.
ComputeTotalRewards(index, growthOutside) ==
  LET key == formatPositionPrefixKey(AccumName, index)
      total == getTotalRewards(accValue, store[key], growthOutside) IN
  /\ key \in DOMAIN store
  /\ Called(FullEnv, Call("getTotalRewards", index, 0, EmptyCoins,
                          growthOutside),
            IF total.panic THEN "panic" ELSE "none", total.rewards)
  /\ UNCHANGED <<accValue, totalShares, store, sumDeltas, added, addedDec,
                 paid, numInc, wholeOnly>>

\* The Reward Engine consulted at any point of the ranged lifecycle:
\* getTotalRewards on any stored record, validateAccumulatorValue on any
\* custom value against the accumulator's value.
EngineNext ==
  \/ RangedNext
  \/ \E i \in Indexes, g \in Growths : ComputeTotalRewards(i, g)
  \/ \E c \in CustomValues : Validate(c, accValue)

EngineSpec == Init /\ [][EngineNext]_vars

\* The two record helpers on their own: initOrUpdatePosition and
\* getPosition applied to a store, with every argument chosen freely.
HelperCall(name, accumulatorValue, index, numShareUnits, unclaimedRewards, options) ==
  [name |-> name, accumulatorValue |-> accumulatorValue, index |-> index,
   numShareUnits |-> numShareUnits, unclaimedRewards |-> unclaimedRewards,
   options |-> options]

HelperCoins == { EmptyCoins, Coin("uX", 1) }

HelperInit ==
  /\ accValue \in HelperCoins
  /\ totalShares = 0
  /\ store = EmptyStore
  /\ op = [call |-> HelperCall("none", EmptyCoins, "-", 0, EmptyCoins, "nil"),
           result |-> getPosition(EmptyStore, AccumName, "-"),
           before |-> EmptyStore]
  /\ sumDeltas = EmptyCoins
  /\ added = [d \in Denoms |-> 0]
  /\ addedDec = [d \in Denoms |-> 0]
  /\ paid = EmptyCoins
  /\ numInc = 0
  /\ wholeOnly = TRUE
  /\ scn3 = 0
  /\ scn4 = 0
  /\ removed = {}
  /\ ConfigurerIdle

\* A call of initOrUpdatePosition.
InitOrUpdate(accumulatorValue, index, numShareUnits, unclaimedRewards, options) ==
  /\ store' = initOrUpdatePosition(store, AccumName, accumulatorValue, index,
                                   numShareUnits, unclaimedRewards, options)
  /\ op' = [call |-> HelperCall("initOrUpdatePosition", accumulatorValue,
                                index, numShareUnits, unclaimedRewards,
                                options),
            result |-> getPosition(EmptyStore, AccumName, "-"),
            before |-> store]
  /\ UNCHANGED <<accValue, totalShares, sumDeltas, added, addedDec, paid,
                 numInc, wholeOnly, scn3, scn4, removed,
                 configurerVars>>

\* A call of getPosition.
GetPosition(index) ==
  /\ op' = [call |-> HelperCall("getPosition", EmptyCoins, index, 0,
                                EmptyCoins, "nil"),
            result |-> getPosition(store, AccumName, index),
            before |-> store]
  /\ UNCHANGED <<accValue, totalShares, store, sumDeltas, added, addedDec,
                 paid, numInc, wholeOnly, scn3, scn4, removed,
                 configurerVars>>

HelperNext ==
  \/ \E v \in HelperCoins, i \in Indexes, n \in ShareAmounts,
        u \in HelperCoins, o \in OptionsSet : InitOrUpdate(v, i, n, u, o)
  \/ \E i \in Indexes : GetPosition(i)

HelperSpec == HelperInit /\ [][HelperNext]_vars

\* Two accumulators in one store: the record helpers and the deletion of a
\* record, called on either of them.
ScopedInit ==
  /\ accValue = EmptyCoins
  /\ totalShares = 0
  /\ store = EmptyStore
  /\ op = [call |-> HelperCall("none", EmptyCoins, "-", 0, EmptyCoins, "nil"),
           accum |-> AccumName,
           result |-> getPosition(EmptyStore, AccumName, "-")]
  /\ sumDeltas = EmptyCoins
  /\ added = [d \in Denoms |-> 0]
  /\ addedDec = [d \in Denoms |-> 0]
  /\ paid = EmptyCoins
  /\ numInc = 0
  /\ wholeOnly = TRUE
  /\ scn3 = 0
  /\ scn4 = 0
  /\ removed = {}
  /\ ConfigurerIdle

\* initOrUpdatePosition on the accumulator `name`.
InitOrUpdateIn(name, accumulatorValue, index, numShareUnits, unclaimedRewards, options) ==
  /\ store' = initOrUpdatePosition(store, name, accumulatorValue, index,
                                   numShareUnits, unclaimedRewards, options)
  /\ op' = [call |-> HelperCall("initOrUpdatePosition", accumulatorValue,
                                index, numShareUnits, unclaimedRewards,
                                options),
            accum |-> name,
            result |-> getPosition(EmptyStore, AccumName, "-")]
  /\ UNCHANGED <<accValue, totalShares, sumDeltas, added, addedDec, paid,
                 numInc, wholeOnly, scn3, scn4, removed,
                 configurerVars>>

\* getPosition on the accumulator `name`.
GetPositionIn(name, index) ==
  /\ op' = [call |-> HelperCall("getPosition", EmptyCoins, index, 0,
                                EmptyCoins, "nil"),
            accum |-> name,
            result |-> getPosition(store, name, index)]
  /\ UNCHANGED <<accValue, totalShares, store, sumDeltas, added, addedDec,
                 paid, numInc, wholeOnly, scn3, scn4, removed,
                 configurerVars>>

\* The deletion of the record at `index` of the accumulator `name`.
DeleteIn(name, index) ==
  /\ store' = Delete(store, formatPositionPrefixKey(name, index))
  /\ op' = [call |-> HelperCall("Delete", EmptyCoins, index, 0, EmptyCoins,
                                "nil"),
            accum |-> name,
            result |-> getPosition(EmptyStore, AccumName, "-")]
  /\ UNCHANGED <<accValue, totalShares, sumDeltas, added, addedDec, paid,
                 numInc, wholeOnly, scn3, scn4, removed,
                 configurerVars>>

ScopedNext ==
  \/ \E a \in Accums, v \in HelperCoins, i \in Indexes :
        InitOrUpdateIn(a, v, i, Scale, EmptyCoins, "nil")
  \/ \E a \in Accums, i \in Indexes : GetPositionIn(a, i)
  \/ \E a \in Accums, i \in Indexes : DeleteIn(a, i)

ScopedSpec == ScopedInit /\ [][ScopedNext]_vars

\* The numbers of the two concrete scenarios.
ScenarioShares == {40 * Scale, 100 * Scale}

ScenarioDeltas == { Coin("uX", Scale \div 10), Coin("uX", 6 * Scale),
                    Coin("uX", 10 * Scale) }

ScenarioEnv ==
  Env(ScenarioMaxShares * Scale, MaxIncreases, TRUE, FALSE, FALSE)

\* The history so far is the beginning of one of the scenarios.
OnScript == scn3 >= 0 \/ scn4 >= 0

\* Each scenario's calls in order and, after any number of them, any one
\* other call.
ScenarioNext ==
  \/ \E delta \in ScenarioDeltas :
        OnScript /\ IncreaseValue(ScenarioEnv, delta)
  \/ \E i \in Indexes, n \in ScenarioShares :
        OnScript /\ CreatePosition(ScenarioEnv, i, n, "nil")
  \/ \E i \in Indexes, n \in ScenarioShares :
        OnScript /\ AddToPosition(ScenarioEnv, i, n, EmptyCoins)
  \/ \E i \in Indexes, n \in ScenarioShares :
        OnScript /\ RemoveFromPosition(ScenarioEnv, i, n, EmptyCoins)
  \/ \E i \in Indexes : OnScript /\ ClaimRewards(ScenarioEnv, i, EmptyCoins)

ScenarioSpec == Init /\ [][ScenarioNext]_vars

(***************************************************************************)
(* The e2e upgrade configurer: ConfigureChains, then                       *)
(* CreatePreUpgradeState.                                                  *)
(***************************************************************************)
\* config.MaxRetries: the attempts the init-file loop makes.
MaxRetries == 3

\* uc.chainConfigs: chain A and chain B.
NumChains == 2

\* make(chan error, 2)
ErrChCapacity == 2

\* The most goroutines a phase starts: wg.Add(6).
MaxWorkers == 6

Workers == 1..MaxWorkers

\* A return of the configurer's function `fn` with `err`.
Return(fn, err) ==
  /\ pc' = At("returned", pc.phase, 0)
  /\ ret' = [fn |-> fn, err |-> err]

\* ConfigureChain up to the retry loop: MkdirTemp, json.Marshal and
\* RunChainInitResource, each of which may fail; the container then starts
\* to write the init file.
StartChain(err) ==
  /\ pc.at = "ConfigureChain"
  /\ IF err # "nil"
       THEN Return("ConfigureChains", err) /\ UNCHANGED file
       ELSE pc' = At("retry", 0, 0) /\ file' = "absent" /\ UNCHANGED ret
  /\ UNCHANGED <<retry, wg, workers, errCh, op, libraryVars>>

\* The chain-init container writes the init file while the loop reads it.
ContainerWrites ==
  /\ pc.at = "retry"
  /\ file # "complete"
  /\ file' = IF file = "absent" THEN "partial" ELSE "complete"
  /\ UNCHANGED <<pc, retry, wg, workers, errCh, ret, op, libraryVars>>

\* os.ReadFile, its error ignored: the bytes written so far.
ReadFile(f) == IF f = "absent" THEN "" ELSE f

\* json.Unmarshal: only the complete file is valid JSON.
Unmarshal(bytes) == IF bytes = "complete" THEN "nil" ELSE "unmarshal error"

\* Faulty variant of the loop's body: the last attempt is taken to be the
\* one after the loop's last.
AttemptOffByOne ==
  LET err == Unmarshal(ReadFile(file))
      made == [retry EXCEPT !.attempts = Append(@, err)] IN
  /\ pc.at = "retry"
  /\ IF retry.i >= MaxRetries
       THEN pc' = At("PurgeResource", 0, 0) /\ UNCHANGED <<retry, ret>>
     ELSE IF err = "nil"
       THEN pc' = At("PurgeResource", 0, 0) /\ retry' = made /\ UNCHANGED ret
     ELSE IF retry.i = MaxRetries
       THEN Return("ConfigureChains", err) /\ retry' = made
     ELSE pc' = pc /\ retry' = [made EXCEPT !.i = @ + 1] /\ UNCHANGED ret
  /\ UNCHANGED <<file, wg, workers, errCh, op, libraryVars>>

\* One pass of the init-file loop: the loop's condition, the read and the
\* unmarshal, the break on success, the return on the last attempt, i++.
Attempt ==
  LET err == Unmarshal(ReadFile(file))
      made == [retry EXCEPT !.attempts = Append(@, err)] IN
  /\ pc.at = "retry"
  /\ IF retry.i >= MaxRetries
       THEN pc' = At("PurgeResource", 0, 0) /\ UNCHANGED <<retry, ret>>
     ELSE IF err = "nil"
       THEN pc' = At("PurgeResource", 0, 0) /\ retry' = made /\ UNCHANGED ret
     ELSE IF retry.i = MaxRetries - 1
       THEN Return("ConfigureChains", err) /\ retry' = made
     ELSE pc' = pc /\ retry' = [made EXCEPT !.i = @ + 1] /\ UNCHANGED ret
  /\ UNCHANGED <<file, wg, workers, errCh, op, libraryVars>>

\* PurgeResource and initializeChainConfigFromInitChain; ConfigureChains
\* then configures the next chain, and CreatePreUpgradeState follows the
\* last one.
PurgeResource(err) ==
  /\ pc.at = "PurgeResource"
  /\ IF err # "nil"
       THEN Return("ConfigureChains", err) /\ UNCHANGED <<retry, file>>
     ELSE /\ pc' = IF retry.chain < NumChains
                     THEN At("ConfigureChain", 0, 0)
                     ELSE At("GetDefaultNode", 0, 0)
          /\ retry' = [chain |-> IF retry.chain < NumChains
                                   THEN retry.chain + 1 ELSE 1,
                       i |-> 0, attempts |-> << >>]
          /\ file' = "absent"
          /\ UNCHANGED ret
  /\ UNCHANGED <<wg, workers, errCh, op, libraryVars>>

\* The statements of the goroutines CreatePreUpgradeState starts, phase by
\* phase; each goroutine ends with its deferred wg.Done().
Programs ==
  << << <<"SendIBC", "SendIBC">>, <<"SendIBC", "SendIBC">> >>,
     << <<"CreateBalancerPool", "EnableSuperfluidAsset">>,
        <<"CreateBalancerPool">> >>,
     << <<"CreateBalancerPool", "EnableSuperfluidAsset">>,
        <<"CreateBalancerPool">>,
        <<"CreateStableswapPool">>,
        <<"CreateStableswapPool">> >>,
     << <<"CreateWalletAndFund">>, <<"CreateWalletAndFund">>,
        <<"CreateWalletAndFund">> >>,
     << <<"SwapExactAmountIn">>,
        <<"SetupRateLimiting", "send">>,
        <<"SetupRateLimiting", "send">>,
        <<"LockAndAddToExistingLock">>,
        <<"CreateWalletAndFund", "FundCommunityPool">>,
        <<"CreateWalletAndFund", "FundCommunityPool">> >> >>

\* The program of goroutine k of the current phase.
Program(k) == Programs[pc.phase][k]

\* Goroutine k was started and has not reached its deferred wg.Done().
Running(k) ==
  /\ pc.at \in {"go", "Wait"}
  /\ k \in 1..Len(workers)
  /\ workers[k].at <= Len(Program(k))

\* chainA.GetDefaultNode() and chainB.GetDefaultNode()
GetNodes(err) ==
  /\ pc.at = "GetDefaultNode"
  /\ IF err # "nil"
       THEN Return("CreatePreUpgradeState", err)
       ELSE pc' = At("Add", 1, 0) /\ UNCHANGED ret
  /\ UNCHANGED <<retry, file, wg, workers, errCh, op, libraryVars>>

\* wg.Add(n) for the phase's n goroutines.
WgAdd ==
  /\ pc.at = "Add"
  /\ wg' = wg + Len(Programs[pc.phase])
  /\ workers' = << >>
  /\ pc' = At("go", pc.phase, 1)
  /\ UNCHANGED <<retry, file, errCh, ret, op, libraryVars>>

\* A go statement: the next goroutine of the phase starts.
Go ==
  /\ pc.at = "go"
  /\ workers' = Append(workers, [at |-> 1, err |-> "nil"])
  /\ pc' = IF pc.k = Len(Programs[pc.phase])
             THEN At("Wait", pc.phase, 0)
             ELSE At("go", pc.phase, pc.k + 1)
  /\ UNCHANGED <<retry, file, wg, errCh, ret, op, libraryVars>>

\* Faulty variant of wg.Wait(): it returns whatever the counter is.
WgWaitReturnsAtOnce ==
  /\ pc.at = "Wait"
  /\ pc' = IF pc.phase < Len(Programs)
             THEN At("Add", pc.phase + 1, 0)
             ELSE At("close", pc.phase, 0)
  /\ UNCHANGED <<retry, file, wg, workers, errCh, ret, op, libraryVars>>

\* wg.Wait(): blocks until the counter is zero.
WgWait ==
  /\ pc.at = "Wait"
  /\ wg = 0
  /\ pc' = IF pc.phase < Len(Programs)
             THEN At("Add", pc.phase + 1, 0)
             ELSE At("close", pc.phase, 0)
  /\ UNCHANGED <<retry, file, wg, workers, errCh, ret, op, libraryVars>>

\* close(errCh)
Close ==
  /\ pc.at = "close"
  /\ errCh' = [errCh EXCEPT !.closed = TRUE]
  /\ pc' = At("range", pc.phase, 0)
  /\ UNCHANGED <<retry, file, wg, workers, ret, op, libraryVars>>

\* One pass of `for err := range errCh`: a receive blocks on an open empty
\* channel and ends the loop on a closed empty one.
Range ==
  /\ pc.at = "range"
  /\ IF errCh.buf # << >>
       THEN /\ errCh' = [errCh EXCEPT !.buf = Tail(@)]
            /\ IF Head(errCh.buf) # "nil"
                 THEN Return("CreatePreUpgradeState", Head(errCh.buf))
                 ELSE UNCHANGED <<pc, ret>>
       ELSE /\ errCh.closed
            /\ Return("CreatePreUpgradeState", "nil")
            /\ UNCHANGED errCh
  /\ UNCHANGED <<retry, file, wg, workers, op, libraryVars>>

\* A call of a chain or node helper by goroutine k.
WorkerCall(k) ==
  /\ Running(k)
  /\ Program(k)[workers[k].at] \notin {"SetupRateLimiting", "send"}
  /\ workers' = [workers EXCEPT ![k].at = @ + 1]
  /\ UNCHANGED <<pc, retry, file, wg, errCh, ret, op, libraryVars>>

\* _, err := node.SetupRateLimiting(...)
SetupRateLimiting(k, err) ==
  /\ Running(k)
  /\ Program(k)[workers[k].at] = "SetupRateLimiting"
  /\ workers' = [workers EXCEPT ![k] = [at |-> @.at + 1, err |-> err]]
  /\ UNCHANGED <<pc, retry, file, wg, errCh, ret, op, libraryVars>>

\* Faulty variant of the send: the channel holds one value only.
SendErrCapacityOne(k) ==
  /\ Running(k)
  /\ Program(k)[workers[k].at] = "send"
  /\ Len(errCh.buf) < 1
  /\ errCh' = [errCh EXCEPT !.buf = Append(@, workers[k].err),
                            !.sent = Append(@, workers[k].err)]
  /\ workers' = [workers EXCEPT ![k].at = @ + 1]
  /\ UNCHANGED <<pc, retry, file, wg, ret, op, libraryVars>>

\* errCh <- err: blocks while the buffer is full.
SendErr(k) ==
  /\ Running(k)
  /\ Program(k)[workers[k].at] = "send"
  /\ Len(errCh.buf) < ErrChCapacity
  /\ errCh' = [errCh EXCEPT !.buf = Append(@, workers[k].err),
                            !.sent = Append(@, workers[k].err)]
  /\ workers' = [workers EXCEPT ![k].at = @ + 1]
  /\ UNCHANGED <<pc, retry, file, wg, ret, op, libraryVars>>

\* The deferred wg.Done() of goroutine k, which then ends.
Done(k) ==
  /\ pc.at \in {"go", "Wait"}
  /\ k \in 1..Len(workers)
  /\ workers[k].at = Len(Program(k)) + 1
  /\ wg' = wg - 1
  /\ workers' = [workers EXCEPT ![k].at = @ + 1]
  /\ UNCHANGED <<pc, retry, file, errCh, ret, op, libraryVars>>

\* The errors the configurer's collaborators return.
ChainErrors == {"nil", "MkdirTemp error", "RunChainInitResource error"}

SetupErrors(k) == {"nil", IF k = 2 THEN "chainA error" ELSE "chainB error"}

\* The steps of CreatePreUpgradeState's main goroutine and of goroutine k.
MainStep ==
  \/ \E err \in {"nil", "GetDefaultNode error"} : GetNodes(err)
  \/ WgAdd
  \/ Go
  \/ WgWait
  \/ Close
  \/ Range

WorkerStep(k) ==
  \/ WorkerCall(k)
  \/ \E err \in SetupErrors(k) : SetupRateLimiting(k, err)
  \/ SendErr(k)
  \/ Done(k)

UpgradeInit ==
  AccumInit /\ pc = At("ConfigureChain", 0, 0) /\ ConfigurerStart

UpgradeNext ==
  \/ \E err \in ChainErrors : StartChain(err)
  \/ ContainerWrites
  \/ Attempt
  \/ \E err \in {"nil", "PurgeResource error"} : PurgeResource(err)
  \/ \E err \in {"nil", "GetDefaultNode error"} : GetNodes(err)
  \/ WgAdd
  \/ Go
  \/ WgWait
  \/ Close
  \/ Range
  \/ \E k \in Workers : WorkerCall(k)
  \/ \E k \in Workers : \E err \in SetupErrors(k) : SetupRateLimiting(k, err)
  \/ \E k \in Workers : SendErr(k)
  \/ \E k \in Workers : Done(k)

UpgradeSpec == UpgradeInit /\ [][UpgradeNext]_vars

\* The Go scheduler runs every goroutine that can take a step, and the
\* helpers the goroutines call return.
UpgradeFairSpec ==
  /\ UpgradeInit
  /\ [][UpgradeNext]_vars
  /\ WF_vars(MainStep)
  /\ \A k \in Workers : WF_vars(WorkerStep(k))

(***************************************************************************)
(* x/superfluid/keeper: UnlockAndMigrate.  The chain state the keepers     *)
(* read is kept in store, the last call and what it did in op.             *)
(***************************************************************************)
\* The most gamm shares a lock holds.
MaxLockShares == 2

\* The lock migrated, the balancer pool its shares' denom names and the
\* concentrated pool linked to it.
LockId == 1

BalancerPoolId == 1

ConcentratedPoolId == 2

Validators == {"valA", "valB"}

\* A call made to a keeper: its name, the lock and the share amount it is
\* about, the validator it names.
KeeperCall(name, lock, amount, val) ==
  [name |-> name, lock |-> lock, amount |-> amount, val |-> val]

\* The calls made so far and the error that ended them.
Started == [calls |-> << >>, err |-> "none"]

\* The next call to a keeper, made unless an error was returned before or
\* `cond` is false; the call numbered `fail` returns an error.
Then(r, cond, call, fail) ==
  IF r.err # "none" \/ ~cond THEN r
  ELSE [calls |-> Append(r.calls, call),
        err |-> IF Len(r.calls) + 1 = fail THEN call.name ELSE "none"]

\* A check, which returns `err` unless `ok`.
Require(r, ok, err) ==
  IF r.err # "none" \/ ok THEN r ELSE [r EXCEPT !.err = err]

\* Faulty variant of the three checks: the lock is not validated.
migrateChecksSkipsLock(w) ==
  IF ~w.link THEN "GetLinkedConcentratedPoolID"
  ELSE IF ~w.concentrated THEN "GetPoolFromPoolIdAndConvertToConcentrated"
  ELSE "none"

\* GetLinkedConcentratedPoolID, GetPoolFromPoolIdAndConvertToConcentrated
\* and validateLockForUnpool: the first that fails.
migrateChecks(w) ==
  IF ~w.link THEN "GetLinkedConcentratedPoolID"
  ELSE IF ~w.concentrated THEN "GetPoolFromPoolIdAndConvertToConcentrated"
  ELSE IF ~w.lockValid THEN "validateLockForUnpool"
  ELSE "none"

\* Faulty variant: a zero sharesToMigrate is taken as given.
sharesToExitAsGiven(sharesToMigrate, gammSharesInLock) ==
  sharesToMigrate

\* If shares to migrate is not specified, all shares are migrated.
sharesToExit(sharesToMigrate, gammSharesInLock) ==
  IF sharesToMigrate = 0 THEN gammSharesInLock ELSE sharesToMigrate

\* Faulty variant: the position is always created unlocking.
positionCallAlwaysUnlocking(isCurrentlySuperfluidDelegated) ==
  "CreateFullRangePositionUnlocking"

\* The call that creates the full range position.
positionCall(isCurrentlySuperfluidDelegated) ==
  IF isCurrentlySuperfluidDelegated
    THEN "CreateFullRangePositionLocked"
    ELSE "CreateFullRangePositionUnlocking"

\* The keeper calls UnlockAndMigrate makes, in order, in the chain state w,
\* and the error it returns.  The lockup keeper numbers new locks upwards.
UnlockAndMigrateCalls(w, lockId, sharesToMigrate, fail) ==
  LET gammSharesInLock == w.shares
      isCurrentlySuperfluidDelegated == w.delegated
      toMigrate == sharesToExit(sharesToMigrate, gammSharesInLock)
      wasUnbonding == w.synth = "superunbonding"
      wasBonded == w.synth = "superbonding"
      remainingGammShares == gammSharesInLock - toMigrate
      relock == remainingGammShares # 0
      concentratedLockId == lockId + 1
      gammLockId == lockId + 2
      r0 == Require(Started, migrateChecks(w) = "none", migrateChecks(w))
      r1 == Then(r0, isCurrentlySuperfluidDelegated,
                 KeeperCall("SuperfluidUndelegateToConcentratedPosition",
                            lockId, 0, ""), fail)
      r2 == Then(r1, TRUE, KeeperCall("ForceUnlock", lockId, 0, ""), fail)
      r3 == Require(r2, toMigrate <= gammSharesInLock,
                    "shares to migrate must be less than or equal to shares in lock")
      r4 == Then(r3, TRUE, KeeperCall("ExitPool", 0, toMigrate, ""), fail)
      r5 == Require(r4, w.twoCoins,
                    "Balancer pool must have exactly two tokens")
      r6 == Then(r5, TRUE,
                 KeeperCall(positionCall(isCurrentlySuperfluidDelegated),
                            concentratedLockId, 0, ""), fail)
      r7 == Then(r6, isCurrentlySuperfluidDelegated,
                 KeeperCall("SuperfluidDelegate", concentratedLockId, 0,
                            w.validator), fail)
      r8 == Then(r7, wasUnbonding,
                 KeeperCall("GetOrCreateIntermediaryAccount",
                            concentratedLockId, 0, w.synthVal), fail)
      r9 == Then(r8, wasUnbonding,
                 KeeperCall("createSyntheticLockup", concentratedLockId, 0,
                            w.synthVal), fail)
      r10 == Then(r9, relock,
                  KeeperCall("CreateLock", gammLockId, remainingGammShares,
                             ""), fail)
      r11 == Then(r10, relock /\ wasBonded,
                  KeeperCall("SuperfluidDelegate", gammLockId, 0, w.synthVal),
                  fail)
      r12 == Then(r11, relock /\ wasUnbonding,
                  KeeperCall("GetOrCreateIntermediaryAccount", gammLockId, 0,
                             w.synthVal), fail)
      r13 == Then(r12, relock /\ wasUnbonding,
                  KeeperCall("createSyntheticLockup", gammLockId, 0,
                             w.synthVal), fail)
      r14 == Then(r13, relock /\ w.unlocking,
                  KeeperCall("BeginForceUnlock", gammLockId, 0, ""), fail)
  IN  r14

\* What UnlockAndMigrate returns with an error.
ZeroOutputs ==
  [positionId |-> 0, amount0 |-> "Int{}", amount1 |-> "Int{}",
   liquidity |-> "Dec{}", joinTime |-> "Time{}", poolIdLeaving |-> 0,
   poolIdEntering |-> 0, gammLockId |-> 0, concentratedLockId |-> 0]

\* What it returns without one.
MigrateOutputs(w, lockId, sharesToMigrate) ==
  [positionId |-> 1, amount0 |-> "amount0", amount1 |-> "amount1",
   liquidity |-> "liquidity", joinTime |-> "joinTime",
   poolIdLeaving |-> BalancerPoolId, poolIdEntering |-> ConcentratedPoolId,
   gammLockId |-> IF w.shares - sharesToExit(sharesToMigrate, w.shares) # 0
                    THEN lockId + 2 ELSE 0,
   concentratedLockId |-> lockId + 1]

\* UnlockAndMigrate(ctx, sender, lockId, sharesToMigrate): a call that
\* returns an error is discarded with its transaction, one that succeeds
\* has destroyed the lock.
UnlockAndMigrate(sharesToMigrate, fail) ==
  LET r == UnlockAndMigrateCalls(store, LockId, sharesToMigrate, fail) IN
  /\ fail <= Len(UnlockAndMigrateCalls(store, LockId, sharesToMigrate, 0).calls)
  /\ op' = [call |-> [name |-> "UnlockAndMigrate",
                       sharesToMigrate |-> sharesToMigrate, fail |-> fail],
            world |-> store, calls |-> r.calls, err |-> r.err,
            out |-> IF r.err = "none"
                      THEN MigrateOutputs(store, LockId, sharesToMigrate)
                      ELSE ZeroOutputs]
  /\ store' = IF r.err = "none"
                THEN [store EXCEPT !.lockValid = FALSE]
                ELSE store
  /\ UNCHANGED <<accValue, totalShares, sumDeltas, added, addedDec, paid,
                 numInc, wholeOnly, scn3, scn4, removed, configurerVars>>

\* The chain states UnlockAndMigrate is called in: whether the link, the
\* concentrated pool and a valid lock of the sender exist, the shares in
\* the lock, its superfluid delegation and the validator delegated to, its
\* synthetic lock and the validator its denom names, whether it is
\* unlocking, and whether the pool's exit returns two coins.
LockStates ==
  { w \in [link : {TRUE}, concentrated : {TRUE}, lockValid : {TRUE},
           shares : 1..MaxLockShares, delegated : BOOLEAN,
           validator : Validators \cup {""},
           synth : {"none", "superbonding", "superunbonding"},
           synthVal : Validators \cup {""},
           unlocking : BOOLEAN, twoCoins : BOOLEAN] :
      /\ (w.validator = "") <=> ~w.delegated
      /\ (w.synthVal = "") <=> (w.synth = "none") }

UncheckedStates ==
  { [link |-> l, concentrated |-> c, lockValid |-> v, shares |-> 1,
     delegated |-> TRUE, validator |-> "valA", synth |-> "superbonding",
     synthVal |-> "valA", unlocking |-> FALSE, twoCoins |-> TRUE] :
      l \in BOOLEAN, c \in BOOLEAN, v \in BOOLEAN }

MigrateInit ==
  /\ accValue = EmptyCoins
  /\ totalShares = 0
  /\ store \in LockStates \cup UncheckedStates
  /\ op = [call |-> [name |-> "none", sharesToMigrate |-> 0, fail |-> 0],
           world |-> store, calls |-> << >>, err |-> "none",
           out |-> ZeroOutputs]
  /\ sumDeltas = EmptyCoins
  /\ added = [d \in Denoms |-> 0]
  /\ addedDec = [d \in Denoms |-> 0]
  /\ paid = EmptyCoins
  /\ numInc = 0
  /\ wholeOnly = TRUE
  /\ scn3 = 0
  /\ scn4 = 0
  /\ removed = {}
  /\ ConfigurerIdle

\* The keeper calls made when all of them succeed are at most eleven.
MaxKeeperCalls == 11

MigrateNext ==
  \E sharesToMigrate \in 0..(MaxLockShares + 1), fail \in 0..MaxKeeperCalls :
    UnlockAndMigrate(sharesToMigrate, fail)

MigrateSpec == MigrateInit /\ [][MigrateNext]_vars

(***************************************************************************)
(* x/gamm/keeper: HandleCreatingCLPoolAndLinkToCFMMProposal.               *)
(***************************************************************************)
\* The most records a proposal carries.
MaxRecords == 2

\* The CFMM pools of the chain and the denoms of their liquidity; pool 3
\* does not exist.
CFMMPools ==
  [id \in {1, 2} |->
     IF id = 1 THEN << "uX", "uY" >> ELSE << "uX", "uY", "uZ" >>]

\* The id the pool manager gives the n-th pool created.
CreatedPoolId(n) == 10 + n

\* The inner loop over the pool's liquidity: foundDenom0 and denom1.
RECURSIVE scanLiquidity(_, _, _)
scanLiquidity(poolLiquidity, denom0, acc) ==
  IF poolLiquidity = << >> THEN acc
  ELSE scanLiquidity(Tail(poolLiquidity), denom0,
                     IF Head(poolLiquidity) = denom0
                       THEN [acc EXCEPT !.foundDenom0 = TRUE]
                       ELSE [acc EXCEPT !.denom1 = Head(poolLiquidity)])

\* Faulty variant of the loop's body: the number of denoms is not checked.
handleRecordAnyDenoms(r, record, fail) ==
  LET exists == record.BalancerPoolId \in DOMAIN CFMMPools
      poolLiquidity == IF exists THEN CFMMPools[record.BalancerPoolId]
                       ELSE << >>
      scan == scanLiquidity(poolLiquidity, record.Denom0,
                            [foundDenom0 |-> FALSE, denom1 |-> ""])
      calls == Len(r.created) + Len(r.links)
      poolId == CreatedPoolId(Len(r.created) + 1)
  IN  IF r.err # "none" THEN r
      ELSE IF ~exists THEN [r EXCEPT !.err = "GetCFMMPool"]
      ELSE IF ~scan.foundDenom0
        THEN [r EXCEPT !.err = "desired denom was not found in the pool"]
      ELSE IF calls + 1 = fail
        THEN [r EXCEPT !.err = "CreateConcentratedPoolAsPoolManager"]
      ELSE IF calls + 2 = fail
        THEN [r EXCEPT
                !.created = Append(@, [denom0 |-> record.Denom0,
                                       denom1 |-> scan.denom1,
                                       id |-> poolId]),
                !.err = "OverwriteMigrationRecordsAndRedirectDistrRecords"]
      ELSE [r EXCEPT
              !.created = Append(@, [denom0 |-> record.Denom0,
                                     denom1 |-> scan.denom1, id |-> poolId]),
              !.links = Append(@, [BalancerPoolId |-> record.BalancerPoolId,
                                   ClPoolId |-> poolId])]

\* The body of the loop over the proposal's records: the pools created and
\* the links set so far, and the error returned; the call to the pool
\* manager or to the migration records numbered `fail` returns an error.
handleRecord(r, record, fail) ==
  LET exists == record.BalancerPoolId \in DOMAIN CFMMPools
      poolLiquidity == IF exists THEN CFMMPools[record.BalancerPoolId]
                       ELSE << >>
      scan == scanLiquidity(poolLiquidity, record.Denom0,
                            [foundDenom0 |-> FALSE, denom1 |-> ""])
      calls == Len(r.created) + Len(r.links)
      poolId == CreatedPoolId(Len(r.created) + 1)
  IN  IF r.err # "none" THEN r
      ELSE IF ~exists THEN [r EXCEPT !.err = "GetCFMMPool"]
      ELSE IF Len(poolLiquidity) # 2
        THEN [r EXCEPT !.err = "can only have 2 denoms in CL pool"]
      ELSE IF ~scan.foundDenom0
        THEN [r EXCEPT !.err = "desired denom was not found in the pool"]
      ELSE IF calls + 1 = fail
        THEN [r EXCEPT !.err = "CreateConcentratedPoolAsPoolManager"]
      ELSE IF calls + 2 = fail
        THEN [r EXCEPT
                !.created = Append(@, [denom0 |-> record.Denom0,
                                       denom1 |-> scan.denom1,
                                       id |-> poolId]),
                !.err = "OverwriteMigrationRecordsAndRedirectDistrRecords"]
      ELSE [r EXCEPT
              !.created = Append(@, [denom0 |-> record.Denom0,
                                     denom1 |-> scan.denom1, id |-> poolId]),
              !.links = Append(@, [BalancerPoolId |-> record.BalancerPoolId,
                                   ClPoolId |-> poolId])]

\* The loop over p.PoolRecordsWithCfmmLink.
RECURSIVE handleRecords(_, _, _)
handleRecords(r, records, fail) ==
  IF records = << >> THEN r
  ELSE handleRecords(handleRecord(r, Head(records), fail), Tail(records),
                     fail)

PoolRecords == [BalancerPoolId : {1, 2, 3}, Denom0 : {"uX", "uZ"}]

Proposals == UNION {[1..n -> PoolRecords] : n \in 0..MaxRecords}

\* HandleCreatingCLPoolAndLinkToCFMMProposal(ctx, p)
HandleCreatingCLPoolAndLinkToCFMMProposal(records, fail) ==
  LET r == handleRecords([created |-> << >>, links |-> << >>,
                          err |-> "none"], records, fail) IN
  /\ op' = [call |-> [name |-> "HandleCreatingCLPoolAndLinkToCFMMProposal",
                       records |-> records, fail |-> fail],
            created |-> r.created, links |-> r.links, err |-> r.err]
  /\ UNCHANGED <<accValue, totalShares, store, sumDeltas, added, addedDec,
                 paid, numInc, wholeOnly, scn3, scn4, removed,
                 configurerVars>>

GovInit ==
  /\ accValue = EmptyCoins
  /\ totalShares = 0
  /\ store = EmptyStore
  /\ op = [call |-> [name |-> "none", records |-> << >>, fail |-> 0],
           created |-> << >>, links |-> << >>, err |-> "none"]
  /\ sumDeltas = EmptyCoins
  /\ added = [d \in Denoms |-> 0]
  /\ addedDec = [d \in Denoms |-> 0]
  /\ paid = EmptyCoins
  /\ numInc = 0
  /\ wholeOnly = TRUE
  /\ scn3 = 0
  /\ scn4 = 0
  /\ removed = {}
  /\ ConfigurerIdle

GovNext ==
  \E records \in Proposals, fail \in 0..(2 * MaxRecords) :
    /\ fail <= 2 * Len(records)
    /\ HandleCreatingCLPoolAndLinkToCFMMProposal(records, fail)

GovSpec == GovInit /\ [][GovNext]_vars

(***************************************************************************)
(* Quantities the properties are about.                                    *)
(***************************************************************************)
Key(i) == formatPositionPrefixKey(AccumName, i)

\* The indexes that have a record.
Live == {i \in Indexes : Key(i) \in DOMAIN store}

RECURSIVE SumOver(_, _)
SumOver(f, S) ==
  IF S = {} THEN 0
  ELSE LET x == CHOOSE y \in S : TRUE IN f[x] + SumOver(f, S \ {x})

\* unclaimedRewards + numShares x (currentValue - initAccumValue) of index
\* i in denomination d, x being Dec multiplication.
PositionValue(i, d) ==
  AmountOf(store[Key(i)].UnclaimedRewards, d)
    + DecMul(store[Key(i)].NumShares,
             AmountOf(accValue, d) - AmountOf(store[Key(i)].InitAccumValue, d))

\* The total rewards getTotalRewards computes for index i (growthOutside
\* zero), in denomination d.
ComputedRewards(i, d) ==
  AmountOf(getTotalRewards(accValue, store[Key(i)], EmptyCoins).rewards, d)

(***************************************************************************)
(* C1.  Conservation of value.                                             *)
(***************************************************************************)
\* C1 as stated: in every denomination the live positions' unclaimedRewards
\* + numShares x (currentValue - initAccumValue) sum to the rewards added
\* (each IncreaseValue delta times the total shares at that call) minus the
\* payouts of claims and full removals; the rewards added taken either as
\* the exact products (in units of 1/Scale^2) or as Dec products.
LiveValue(d) == SumOver([i \in Live |-> PositionValue(i, d)], Live)

C1_ExactLedger ==
  \A d \in Denoms : Scale * LiveValue(d) = added[d] - Scale * AmountOf(paid, d)

C1_DecLedger ==
  \A d \in Denoms : LiveValue(d) = addedDec[d] - AmountOf(paid, d)

C1_ConservationAsStated == C1_ExactLedger \/ C1_DecLedger

\* C1 amended: the same equation holds in every reachable state in which
\* every share amount created, added or removed so far was a whole number,
\* so that no product was rounded.
C1_ConservationWholeShares == wholeOnly => C1_ExactLedger /\ C1_DecLedger

\* Two live positions with whole shares hold rewards after some were paid out.
C1_Witness ==
  /\ wholeOnly
  /\ Live = Indexes
  /\ AmountOf(paid, "uX") > 0
  /\ \A i \in Live : PositionValue(i, "uX") > 0
  /\ \E i \in Live : store[Key(i)].UnclaimedRewards # EmptyCoins

(***************************************************************************)
(* C2.  Payouts plus computed rewards against the IncreaseValue deltas.    *)
(***************************************************************************)
\* C2 as stated: in every denomination, all payouts plus the live positions'
\* computed total rewards equal the sum of all IncreaseValue deltas.
C2_SumOfDeltasAsStated ==
  \A d \in Denoms :
    AmountOf(paid, d) + SumOver([i \in Live |-> ComputedRewards(i, d)], Live)
      = AmountOf(sumDeltas, d)

\* C2 amended: in every denomination, all payouts plus the live positions'
\* computed total rewards equal the sum of each IncreaseValue delta times the
\* total shares at that call, provided every share amount so far was whole.
C2_PayoutsPlusRewardsWholeShares ==
  wholeOnly =>
    \A d \in Denoms :
      Scale * (AmountOf(paid, d)
                 + SumOver([i \in Live |-> ComputedRewards(i, d)], Live))
        = added[d]

\* After two increases a whole-share position was fully removed and paid,
\* while another still holds computed rewards.
C2_Witness ==
  /\ wholeOnly
  /\ numInc = MaxIncreases
  /\ Cardinality(Live) = 1
  /\ AmountOf(paid, "uY") > 0
  /\ \E i \in Live : ComputedRewards(i, "uY") > AmountOf(sumDeltas, "uY")

(***************************************************************************)
(* C3.  The concrete scenario of two positions of 100 shares.              *)
(***************************************************************************)
ClaimedExactly(amount) ==
  op.call.name = "ClaimRewards" /\ op.err = "none"
    /\ op.payout = Coin("uX", amount)

\* C3 as stated: after CreatePosition(a, 100), IncreaseValue({uX: 10}),
\* CreatePosition(b, 100), IncreaseValue({uX: 10}), claiming for a yields
\* uX: 15 and claiming for b immediately after yields uX: 5.
C3_ScenarioAsStated ==
  /\ scn3 = 5 => ClaimedExactly(15 * Scale)
  /\ scn3 = 6 => ClaimedExactly(5 * Scale)

\* C3 amended: after the same calls, claiming for a yields uX: 2000 and
\* claiming for b immediately after yields uX: 1000 (the delta of
\* IncreaseValue is added to the value per share).
C3_ScenarioPerShare ==
  /\ scn3 = 5 => ClaimedExactly(2000 * Scale)
  /\ scn3 = 6 => ClaimedExactly(1000 * Scale)

\* Both claims of the scenario have been made.
C3_Witness == scn3 = Len(Scenario3) /\ op.payout # EmptyCoins

(***************************************************************************)
(* C4.  The concrete scenario of a partial removal.                        *)
(***************************************************************************)
\* The position of 100 shares holds 60 shares and unclaimedRewards uX: 10
\* once RemoveFromPosition(delta = 40) has been called.
C4_AfterRemoval ==
  scn4 = 3 =>
    /\ op.err = "none"
    /\ Key("a") \in DOMAIN store
    /\ store[Key("a")].NumShares = 60 * Scale
    /\ store[Key("a")].UnclaimedRewards = Coin("uX", 10 * Scale)

\* C4 as stated: a position of 100 shares that accrued uX: 10 keeps 60
\* shares and unclaimedRewards uX: 10 after RemoveFromPosition(delta = 40),
\* and, the total shares being 100, IncreaseValue({uX: 6}) followed by
\* ClaimRewards yields uX: 13.6.
C4_ScenarioAsStated ==
  /\ C4_AfterRemoval
  /\ scn4 = 6 => ClaimedExactly((136 * Scale) \div 10)

\* C4 amended: the removal leaves 60 shares and unclaimedRewards uX: 10 as
\* stated, and IncreaseValue({uX: 6}) followed by ClaimRewards yields
\* uX: 370 = 10 + 60 x 6 (the delta is added per share).
C4_ScenarioPerShare ==
  /\ C4_AfterRemoval
  /\ scn4 = 6 => ClaimedExactly(370 * Scale)

\* The scenario's claim has been made, the total shares being 100.
C4_Witness ==
  scn4 = Len(Scenario4) /\ totalShares = 100 * Scale
    /\ op.call.name = "ClaimRewards"

(***************************************************************************)
(* C5.  Claiming twice in immediate succession.                            *)
(***************************************************************************)
ClaimCall(i) == Call("ClaimRewards", i, 0, EmptyCoins, EmptyCoins)

\* The step is a successful ClaimRewards on index i.
ClaimStep(i) == op'.call = ClaimCall(i) /\ op'.err = "none"

C6_TotalSharesIsSum ==
  totalShares = SumOver([k \in DOMAIN store |-> store[k].NumShares],
                        DOMAIN store)

\* Two live positions after shares were added to one and removed from the
\* other.
C6_Witness ==
  /\ Live = Indexes
  /\ op.call.name = "RemoveFromPosition" /\ op.err = "none"
  /\ store[Key("a")].NumShares # store[Key("b")].NumShares
  /\ \E i \in Live : ~IsWhole(store[Key(i)].NumShares)

(***************************************************************************)
(* C7.  validateAccumulatorValue.                                          *)
(***************************************************************************)
\* custom is non-negative and at least old in every denomination, a
\* denomination missing from either counting as zero.
Superset(custom, old) ==
  \A d \in Denoms :
    AmountOf(custom, d) >= 0 /\ AmountOf(custom, d) >= AmountOf(old, d)

Validated == op.call.name = "validateAccumulatorValue"

\* C7: validateAccumulatorValue(custom, old) succeeds if and only if custom
\* is non-negative in every denomination and custom >= old in every
\* denomination, a denomination missing from either counting as zero.
C7_ValidateIffSuperset ==
  Validated => (op.err = "none" <=> Superset(op.call.coins, op.old))

\* The validation succeeded on coin sets that overlap in part: each has a
\* denomination the other lacks.
C7_Witness ==
  /\ Validated /\ op.err = "none"
  /\ (DOMAIN op.old) \ (DOMAIN op.call.coins) # {}
  /\ (DOMAIN op.call.coins) \ (DOMAIN op.old) # {}

(***************************************************************************)
(* C8.  getTotalRewards.                                                   *)
(***************************************************************************)
\* unclaimedRewards + numShares x (currentValue - (initAccumValue +
\* growthOutside)) in denomination d, x being Dec multiplication and a
\* missing denomination counting as zero.
RewardFormula(position, growthOutside, d) ==
  AmountOf(position.UnclaimedRewards, d)
    + DecMul(position.NumShares,
             AmountOf(accValue, d)
               - (AmountOf(position.InitAccumValue, d)
                    + AmountOf(growthOutside, d)))

\* getTotalRewards returns the formula's amount in every denomination.
ReturnsFormula(position, growthOutside) ==
  LET total == getTotalRewards(accValue, position, growthOutside)
  IN  /\ ~total.panic
      /\ \A d \in Denoms :
           AmountOf(total.rewards, d)
             = RewardFormula(position, growthOutside, d)

\* currentValue >= initAccumValue + growthOutside in every denomination.
Covered(position, growthOutside) ==
  \A d \in Denoms :
    AmountOf(accValue, d)
      >= AmountOf(position.InitAccumValue, d) + AmountOf(growthOutside, d)

\* C8 as stated: for every stored position and every growthOutside,
\* getTotalRewards returns unclaimedRewards + numShares x (currentValue -
\* (initAccumValue + growthOutside)) in every denomination.
C8_FormulaAsStated ==
  \A i \in Live, g \in Growths : ReturnsFormula(store[Key(i)], g)

\* C8 amended: getTotalRewards returns that amount in every denomination
\* whenever currentValue >= initAccumValue + growthOutside in every
\* denomination, and panics (returns nothing) otherwise.
C8_FormulaWhenCovered ==
  \A i \in Live, g \in Growths :
    IF Covered(store[Key(i)], g)
      THEN ReturnsFormula(store[Key(i)], g)
      ELSE getTotalRewards(accValue, store[Key(i)], g).panic

\* A position with settled unclaimedRewards whose snapshot lacks a
\* denomination of the growthOutside, and for which the formula gives
\* amounts in two denominations.
C8_Witness ==
  \E i \in Live, g \in Growths :
    /\ g # EmptyCoins
    /\ Covered(store[Key(i)], g)
    /\ store[Key(i)].UnclaimedRewards # EmptyCoins
    /\ DOMAIN g # DOMAIN store[Key(i)].InitAccumValue
    /\ ~IsWhole(store[Key(i)].NumShares)
    /\ RewardFormula(store[Key(i)], g, "uY")
         > AmountOf(store[Key(i)].UnclaimedRewards, "uY")

(***************************************************************************)
(* C9.  IncreaseValue with a negative delta.                               *)
(***************************************************************************)
\* C9: an IncreaseValue whose delta is negative in some denomination fails
\* with InvalidDeltaError and leaves the accumulator's value as it was
\* before the call.
C9_NegativeDeltaFails ==
  (op.call.name = "IncreaseValue" /\ IsAnyNegative(op.call.coins)) =>
    (op.err = "InvalidDeltaError" /\ accValue = op.old)

\* A delta negative in one denomination and positive in another was refused
\* after the value had grown.
C9_Witness ==
  /\ op.call.name = "IncreaseValue" /\ op.err = "InvalidDeltaError"
  /\ \E d \in Denoms : AmountOf(op.call.coins, d) > 0
  /\ accValue # EmptyCoins

(***************************************************************************)
(* C10.  The accumulator's value never decreases.                          *)
(***************************************************************************)
\* C10: with no administrative override, no step lowers the accumulator's
\* value in any denomination, and a step that is not an IncreaseValue call
\* leaves the value unchanged.
C10_ValueMonotone ==
  [][/\ \A d \in Denoms : AmountOf(accValue', d) >= AmountOf(accValue, d)
     /\ op'.call.name # "IncreaseValue" => accValue' = accValue]_vars

\* Position operations followed two increases of the value.
C10_Witness ==
  /\ numInc = MaxIncreases
  /\ op.call.name = "ClaimRewards" /\ op.err = "none"
  /\ op.payout # EmptyCoins
  /\ \A d \in Denoms : AmountOf(accValue, d) > 0

(***************************************************************************)
(* C11.  A record's snapshot never exceeds the accumulator's value.        *)
(***************************************************************************)
\* C11: in every reachable state, under the lifecycle operations,
\* IncreaseValue and the administrative overrides that pass
\* validateAccumulatorValue, every stored record's initAccumValue is at most
\* the accumulator's current value in every denomination.
C11_SnapshotBelowValue ==
  \A i \in Live, d \in Denoms :
    AmountOf(store[Key(i)].InitAccumValue, d) <= AmountOf(accValue, d)

\* An administrative override replaced the value while a position held a
\* snapshot of rewards taken before it.
C11_Witness ==
  /\ op.call.name = "SetAccumulatorValueAdmin" /\ op.err = "none"
  /\ accValue # op.old
  /\ \E i \in Live :
       /\ store[Key(i)].InitAccumValue # EmptyCoins
       /\ store[Key(i)].InitAccumValue # accValue

(***************************************************************************)
(* C12.  A position is settled right after a successful operation on it.   *)
(***************************************************************************)
PositionOps ==
  {"CreatePosition", "AddToPosition", "RemoveFromPosition", "ClaimRewards"}

\* The last call was a successful operation on a position that still has a
\* record (so not a full removal).
Operated ==
  /\ op.call.name \in PositionOps /\ op.err = "none"
  /\ Key(op.call.index) \in DOMAIN store

Wrote(initAccumValue) ==
  op.call.name = "initOrUpdatePosition" =>
    /\ Key(op.call.index) \in DOMAIN store
    /\ store[Key(op.call.index)]
         = Record(op.call.numShareUnits, initAccumValue,
                  op.call.unclaimedRewards, op.call.options)

C14_GetPosition ==
  [][op'.call.name = "getPosition" =>
       /\ IF Key(op'.call.index) \in DOMAIN store
            THEN /\ op'.result.err = "none"
                 /\ op'.result.position = store[Key(op'.call.index)]
            ELSE /\ op'.result.err = "NoPositionError"
                 /\ op'.result.index = op'.call.index
       /\ store' = store /\ accValue' = accValue
       /\ totalShares' = totalShares]_vars

\* A record was read while the other index had none.
C14_Witness ==
  /\ op.call.name = "getPosition" /\ op.result.err = "none"
  /\ op.result.position.UnclaimedRewards # EmptyCoins
  /\ Cardinality(DOMAIN store) = 1

(***************************************************************************)
(* C15.  CreatePosition on an index that has a record.                     *)
(***************************************************************************)
\* The step leaves the records, the accumulator's value and totalShares as
\* they were.
Untouched ==
  store' = store /\ accValue' = accValue /\ totalShares' = totalShares

\* C15: a CreatePosition on an index that already has a record fails with
\* DuplicatePositionError and leaves the existing record, the accumulator's
\* value and totalShares unchanged.
C15_DuplicateCreateFails ==
  [][(op'.call.name = "CreatePosition"
        /\ Key(op'.call.index) \in DOMAIN store)
       => (op'.err = "DuplicatePositionError" /\ Untouched)]_vars

\* A creation with a positive share count was refused on an index whose
\* record holds settled rewards at an older snapshot.
C15_Witness ==
  /\ op.call.name = "CreatePosition" /\ op.err = "DuplicatePositionError"
  /\ op.call.amount > 0
  /\ store[Key(op.call.index)].UnclaimedRewards # EmptyCoins
  /\ store[Key(op.call.index)].InitAccumValue # accValue

(***************************************************************************)
(* C16.  CreatePosition with a share count that is not positive.           *)
(***************************************************************************)
\* C16 as stated: a CreatePosition with numShares <= 0 fails with
\* ZeroSharesError, creates no record and does not change totalShares.
C16_ZeroSharesAsStated ==
  [][(op'.call.name = "CreatePosition" /\ op'.call.amount <= 0)
       => (op'.err = "ZeroSharesError" /\ Untouched)]_vars

\* C16 amended: a CreatePosition with numShares <= 0 fails, creates no
\* record and does not change totalShares; its error is ZeroSharesError
\* when the index has no record, and DuplicatePositionError (the earlier
\* requirement) when it has one.
C16_ZeroSharesOnFreeIndex ==
  [][(op'.call.name = "CreatePosition" /\ op'.call.amount <= 0)
       => /\ Untouched
          /\ op'.err = IF Key(op'.call.index) \in DOMAIN store
                         THEN "DuplicatePositionError"
                         ELSE "ZeroSharesError"]_vars

\* A creation without shares was refused on a free index while the other
\* index has a record.
C16_Witness ==
  /\ op.call.name = "CreatePosition" /\ op.err = "ZeroSharesError"
  /\ Key(op.call.index) \notin DOMAIN store
  /\ Live # {}
  /\ totalShares > 0

(***************************************************************************)
(* C17.  A successful CreatePosition.                                      *)
(***************************************************************************)
\* C17: a successful CreatePosition(accumulator, index, numShares, options)
\* produces a record with the given numShares, zero unclaimedRewards and
\* initAccumValue equal to the accumulator's current value, and increases
\* totalShares by exactly numShares.
C17_CreateWritesRecord ==
  [][(op'.call.name = "CreatePosition" /\ op'.err = "none") =>
       /\ Key(op'.call.index) \in DOMAIN store'
       /\ store'[Key(op'.call.index)].NumShares = op'.call.amount
       /\ store'[Key(op'.call.index)].UnclaimedRewards = EmptyCoins
       /\ store'[Key(op'.call.index)].InitAccumValue = accValue
       /\ accValue' = accValue
       /\ totalShares' = totalShares + op'.call.amount]_vars

\* A position of half a share was created next to a larger one after the
\* value had grown.
C17_Witness ==
  /\ op.call.name = "CreatePosition" /\ op.err = "none"
  /\ accValue # EmptyCoins
  /\ ~IsWhole(op.call.amount)
  /\ totalShares > op.call.amount

(***************************************************************************)
(* C18.  Operations on an index without a record.                          *)
(***************************************************************************)
\* C18: AddToPosition, RemoveFromPosition and ClaimRewards on an index
\* that has no record (never created, or fully removed) fail with
\* NoPositionError and change no record, nor the accumulator's value or
\* totalShares.
C18_NoPositionFails ==
  [][(op'.call.name \in {"AddToPosition", "RemoveFromPosition",
                          "ClaimRewards"}
        /\ Key(op'.call.index) \notin DOMAIN store)
       => (op'.err = "NoPositionError" /\ Untouched)]_vars

\* An operation was refused on an index whose record a full removal had
\* deleted, while the other index, never removed, has a record.
C18_Witness ==
  /\ op.call.name \in {"AddToPosition", "RemoveFromPosition", "ClaimRewards"}
  /\ op.err = "NoPositionError"
  /\ removed = {op.call.index}
  /\ Live = Indexes \ {op.call.index}

(***************************************************************************)
(* C19.  A successful AddToPosition.                                       *)
(***************************************************************************)
\* C19: a successful AddToPosition(accumulator, index, delta, growthOutside)
\* leaves the record with numShares = old numShares + delta,
\* unclaimedRewards = old unclaimedRewards + old numShares x (currentValue -
\* (old initAccumValue + growthOutside)) in every denomination, the same
\* options, and increases totalShares by exactly delta.
C19_AddSettlesAndAdds ==
  [][(op'.call.name = "AddToPosition" /\ op'.err = "none") =>
       /\ Key(op'.call.index) \in DOMAIN store
       /\ Key(op'.call.index) \in DOMAIN store'
       /\ store'[Key(op'.call.index)].NumShares
            = store[Key(op'.call.index)].NumShares + op'.call.amount
       /\ \A d \in Denoms :
            AmountOf(store'[Key(op'.call.index)].UnclaimedRewards, d)
              = RewardFormula(store[Key(op'.call.index)], op'.call.growth, d)
       /\ store'[Key(op'.call.index)].Options
            = store[Key(op'.call.index)].Options
       /\ totalShares' = totalShares + op'.call.amount]_vars

\* Shares were added, with a growthOutside, to a position created with
\* options, and rewards in two denominations were settled.
C19_Witness ==
  /\ op.call.name = "AddToPosition" /\ op.err = "none"
  /\ op.call.growth # EmptyCoins
  /\ store[Key(op.call.index)].Options = "opts"
  /\ \A d \in Denoms :
       AmountOf(store[Key(op.call.index)].UnclaimedRewards, d) > 0

(***************************************************************************)
(* C20.  RemoveFromPosition of more shares than the position has.          *)
(***************************************************************************)
\* C20: a RemoveFromPosition whose delta exceeds the position's current
\* numShares returns InsufficientSharesError and leaves the position's
\* record and totalShares unchanged.
C20_InsufficientSharesFails ==
  [][(/\ op'.call.name = "RemoveFromPosition"
      /\ Key(op'.call.index) \in DOMAIN store
      /\ op'.call.amount > store[Key(op'.call.index)].NumShares)
       => (op'.err = "InsufficientSharesError" /\ Untouched)]_vars

\* A whole share was asked of a position of half a share that holds
\* settled rewards, while the total shares would have covered it.
C20_Witness ==
  /\ op.call.name = "RemoveFromPosition"
  /\ op.err = "InsufficientSharesError"
  /\ store[Key(op.call.index)].NumShares > 0
  /\ store[Key(op.call.index)].UnclaimedRewards # EmptyCoins
  /\ totalShares >= op.call.amount

(***************************************************************************)
(* C21.  Full and partial removal.                                         *)
(***************************************************************************)
\* C21: a successful RemoveFromPosition with delta equal to the position's
\* numShares deletes the record (getPosition then fails with
\* NoPositionError) and returns the position's full settled rewards; with a
\* smaller delta the record remains with numShares reduced by delta; in both
\* cases totalShares decreases by exactly delta; and a CreatePosition with
\* shares on an index whose record a full removal deleted succeeds.
C21_RemoveFullOrPartial ==
  [][/\ (op'.call.name = "RemoveFromPosition" /\ op'.err = "none") =>
          /\ Key(op'.call.index) \in DOMAIN store
          /\ totalShares' = totalShares - op'.call.amount
          /\ IF op'.call.amount = store[Key(op'.call.index)].NumShares
               THEN /\ Key(op'.call.index) \notin DOMAIN store'
                    /\ getPosition(store', AccumName, op'.call.index).err
                         = "NoPositionError"
                    /\ \A d \in Denoms :
                         AmountOf(op'.payout, d)
                           = RewardFormula(store[Key(op'.call.index)],
                                           op'.call.growth, d)
               ELSE /\ Key(op'.call.index) \in DOMAIN store'
                    /\ store'[Key(op'.call.index)].NumShares
                         = store[Key(op'.call.index)].NumShares
                             - op'.call.amount
     /\ (/\ op'.call.name = "CreatePosition" /\ op'.call.amount > 0
         /\ op'.call.index \in removed
         /\ Key(op'.call.index) \notin DOMAIN store)
          => (op'.err = "none" /\ Key(op'.call.index) \in DOMAIN store')]_vars

\* A position was created again on an index whose record a full removal
\* had deleted, after rewards had accrued.
C21_Witness ==
  /\ op.call.name = "CreatePosition" /\ op.err = "none"
  /\ op.call.index \in removed
  /\ accValue # EmptyCoins
  /\ Live = Indexes

(***************************************************************************)
(* C22.  A successful ClaimRewards.                                        *)
(***************************************************************************)
\* C22: a successful ClaimRewards pays exactly unclaimedRewards + numShares
\* x (currentValue - (initAccumValue + growthOutside)) of the position in
\* every denomination, leaves the position with the same numShares and
\* options and with unclaimedRewards zero, and changes neither totalShares
\* nor the accumulator's value.
C22_ClaimPaysAndResets ==
  [][(op'.call.name = "ClaimRewards" /\ op'.err = "none") =>
       /\ Key(op'.call.index) \in DOMAIN store
       /\ Key(op'.call.index) \in DOMAIN store'
       /\ \A d \in Denoms :
            AmountOf(op'.payout, d)
              = RewardFormula(store[Key(op'.call.index)], op'.call.growth, d)
       /\ store'[Key(op'.call.index)].NumShares
            = store[Key(op'.call.index)].NumShares
       /\ store'[Key(op'.call.index)].Options
            = store[Key(op'.call.index)].Options
       /\ store'[Key(op'.call.index)].UnclaimedRewards = EmptyCoins
       /\ totalShares' = totalShares
       /\ accValue' = accValue]_vars

\* A claim with a growthOutside paid rewards in two denominations to a
\* position of two shares created with options.
C22_Witness ==
  /\ op.call.name = "ClaimRewards" /\ op.err = "none"
  /\ op.call.growth # EmptyCoins
  /\ \A d \in Denoms : AmountOf(op.payout, d) > 0
  /\ store[Key(op.call.index)].Options = "opts"
  /\ store[Key(op.call.index)].NumShares = 2 * Scale

(***************************************************************************)
(* C23.  A failed operation changes nothing.                               *)
(***************************************************************************)
\* C23: an operation (create, add, remove, claim, increaseValue,
\* administrative override) that returns an error leaves the accumulator's
\* value, its totalShares and every Position Record exactly as they were
\* before the call.
C23_ErrorLeavesState ==
  [][op'.err # "none" => Untouched]_vars

\* An override below the current value was refused while a position holds
\* shares and settled rewards.
C23_Witness ==
  /\ op.call.name = "SetAccumulatorValueAdmin"
  /\ op.err = "NegativeAccDifferenceError"
  /\ \E i \in Live : store[Key(i)].UnclaimedRewards # EmptyCoins
  /\ totalShares > 0

(***************************************************************************)
(* C24.  Shares are positive while a record lives; the total is not        *)
(* negative.                                                               *)
(***************************************************************************)
\* C24: in every reachable state every stored Position Record has
\* numShares > 0 and totalShares is not negative.
C24_SharesPositive ==
  /\ \A k \in DOMAIN store : store[k].NumShares > 0
  /\ totalShares >= 0

\* A removal took the last shares of a position, whose record is gone,
\* while the other position keeps half a share.
C24_Witness ==
  /\ op.call.name = "RemoveFromPosition" /\ op.err = "none"
  /\ Key(op.call.index) \notin DOMAIN store
  /\ op.payout # EmptyCoins
  /\ totalShares = Scale \div 2

(***************************************************************************)
(* C25.  The options of a position.                                        *)
(***************************************************************************)
\* C25: the options given to a successful CreatePosition are the options of
\* the record it writes, and every later step that keeps the record
\* (AddToPosition, partial RemoveFromPosition, ClaimRewards, or any other
\* call) leaves the record's options as they were.
C25_OptionsCarried ==
  [][/\ \A i \in Indexes, n \in WholeShares, o \in OptionsSet :
          (CreatePosition(FullEnv, i, n, o) /\ op'.err = "none")
            => store'[Key(i)].Options = o
     /\ \A i \in Indexes :
          (Key(i) \in DOMAIN store /\ Key(i) \in DOMAIN store')
            => store'[Key(i)].Options = store[Key(i)].Options]_vars

\* A position created with options still has them after shares were added
\* to it and its rewards were claimed.
C25_Witness ==
  /\ op.call.name = "ClaimRewards" /\ op.err = "none"
  /\ op.payout # EmptyCoins
  /\ store[Key(op.call.index)].Options = "opts"
  /\ store[Key(op.call.index)].NumShares = 2 * Scale

(***************************************************************************)
(* C26.  The order of validateAccumulatorValue's rules.                    *)
(***************************************************************************)
\* customValue - oldValue is negative in some denomination.
DifferenceNegative(custom, old) ==
  \E d \in Denoms : AmountOf(custom, d) - AmountOf(old, d) < 0

\* C26: when customValue is negative in some denomination
\* validateAccumulatorValue fails with NegativeCustomAccError carrying
\* customValue, whether or not customValue - oldValue is negative somewhere;
\* it fails with NegativeAccDifferenceError exactly when customValue is
\* non-negative everywhere and customValue - oldValue is negative in some
\* denomination.
C26_RulesInOrder ==
  Validated =>
    /\ IsAnyNegative(op.call.coins)
         => (op.err = "NegativeCustomAccError" /\ op.carried = op.call.coins)
    /\ op.err = "NegativeAccDifferenceError"
         <=> (~IsAnyNegative(op.call.coins)
                /\ DifferenceNegative(op.call.coins, op.old))

\* A custom value negative in one denomination, and below the old value in
\* another where it is positive, was refused for its sign.
C26_Witness ==
  /\ Validated /\ op.err = "NegativeCustomAccError"
  /\ \E d \in Denoms :
       /\ AmountOf(op.call.coins, d) > 0
       /\ AmountOf(op.call.coins, d) < AmountOf(op.old, d)

(***************************************************************************)
(* C27.  initOrUpdatePosition writes one record and nothing else.          *)
(***************************************************************************)
\* C27: a call of initOrUpdatePosition leaves the accumulator's value, its
\* totalShares and every Position Record other than the one under
\* (accumulator name, index) unchanged.
C27_SingleRecordWrite ==
  [][op'.call.name = "initOrUpdatePosition" =>
       /\ accValue' = accValue
       /\ totalShares' = totalShares
       /\ DOMAIN store' = (DOMAIN store) \cup {Key(op'.call.index)}
       /\ \A k \in (DOMAIN store) \ {Key(op'.call.index)} :
            store'[k] = store[k]]_vars

\* A record was written next to a record of the other index that differs
\* from it, with a snapshot other than the accumulator's value.
C27_Witness ==
  /\ op.call.name = "initOrUpdatePosition"
  /\ DOMAIN store = {Key(i) : i \in Indexes}
  /\ store[Key("a")] # store[Key("b")]
  /\ op.call.accumulatorValue # accValue

(***************************************************************************)
(* C28.  The Reward Engine mutates nothing.                                *)
(***************************************************************************)
\* C28: a call of getTotalRewards or of validateAccumulatorValue, whether
\* it succeeds or fails, leaves the accumulator's value, its totalShares and
\* every Position Record unchanged.
C28_EngineMutatesNothing ==
  [][op'.call.name \in {"getTotalRewards", "validateAccumulatorValue"}
       => Untouched]_vars

\* A custom value above the accumulator's value passed validation while a
\* position holds a snapshot, and the accumulator's value is still the old
\* one.
C28_Witness ==
  /\ Validated /\ op.err = "none"
  /\ op.call.coins # accValue
  /\ accValue # EmptyCoins
  /\ \E i \in Live : store[Key(i)].InitAccumValue # EmptyCoins

(***************************************************************************)
(* C29.  getTotalRewards when its precondition does not hold.              *)
(***************************************************************************)
\* The last call was getTotalRewards on a record for which currentValue is
\* smaller than initAccumValue + growthOutside in some denomination.
ComputedUncovered ==
  /\ op.call.name = "getTotalRewards"
  /\ ~Covered(store[Key(op.call.index)], op.call.growth)

\* C29 as stated: when currentValue is smaller than initAccumValue +
\* growthOutside in some denomination, getTotalRewards proceeds by the same
\* formula: there is no error outcome, and it returns unclaimedRewards +
\* numShares x (currentValue - (initAccumValue + growthOutside)) in every
\* denomination, without clamping.
C29_ProceedsAsStated ==
  ComputedUncovered =>
    /\ op.err = "none"
    /\ \A d \in Denoms :
         AmountOf(op.payout, d)
           = RewardFormula(store[Key(op.call.index)], op.call.growth, d)

\* C29 amended: getTotalRewards has no check of its own and clamps
\* nothing, but when currentValue is smaller than initAccumValue +
\* growthOutside in some denomination the subtraction (DecCoins.Sub) panics
\* and no rewards are returned.
C29_PanicsWhenUncovered ==
  ComputedUncovered => (op.err = "panic" /\ op.payout = EmptyCoins)

\* The rewards of a position with settled unclaimedRewards were asked for
\* with a growthOutside above the growth since its snapshot.
C29_Witness ==
  /\ ComputedUncovered
  /\ op.call.growth # EmptyCoins
  /\ store[Key(op.call.index)].UnclaimedRewards # EmptyCoins
  /\ store[Key(op.call.index)].InitAccumValue # EmptyCoins

(***************************************************************************)
(* C30.  Settlement is value-neutral for the position.                     *)
(***************************************************************************)
\* C30: for a successful AddToPosition or partial RemoveFromPosition
\* (growthOutside zero), the position's total rewards computed by
\* getTotalRewards immediately after the operation equal, in every
\* denomination, those computed immediately before it.
C30_SettlementNeutral ==
  [][(/\ op'.call.name \in {"AddToPosition", "RemoveFromPosition"}
      /\ op'.err = "none" /\ op'.call.growth = EmptyCoins
      /\ Key(op'.call.index) \in DOMAIN store')
       => /\ Key(op'.call.index) \in DOMAIN store
          /\ ~getTotalRewards(accValue, store[Key(op'.call.index)],
                              EmptyCoins).panic
          /\ ~getTotalRewards(accValue', store'[Key(op'.call.index)],
                              EmptyCoins).panic
          /\ \A d \in Denoms :
               AmountOf(getTotalRewards(accValue', store'[Key(op'.call.index)],
                                        EmptyCoins).rewards, d)
                 = AmountOf(getTotalRewards(accValue,
                                            store[Key(op'.call.index)],
                                            EmptyCoins).rewards, d)]_vars

\* Half a share was taken from a position that had settled rewards before
\* and earned more since, leaving it half a share.
C30_Witness ==
  /\ op.call.name = "RemoveFromPosition" /\ op.err = "none"
  /\ op.call.amount = Scale \div 2
  /\ Key(op.call.index) \in DOMAIN store
  /\ store[Key(op.call.index)].NumShares = Scale \div 2
  /\ AmountOf(store[Key(op.call.index)].UnclaimedRewards, "uY") > Scale
  /\ numInc = MaxIncreases

(***************************************************************************)
(* C31.  A new position has earned nothing.                                *)
(***************************************************************************)
\* C31: immediately after a successful CreatePosition, also one that
\* creates again an index that was fully removed earlier, getTotalRewards
\* for the position is zero in every denomination, however many
\* IncreaseValue calls preceded the creation.
C31_NothingBeforeCreation ==
  (op.call.name = "CreatePosition" /\ op.err = "none") =>
    /\ Key(op.call.index) \in DOMAIN store
    /\ ~getTotalRewards(accValue, store[Key(op.call.index)], EmptyCoins).panic
    /\ \A d \in Denoms : ComputedRewards(op.call.index, d) = 0

\* An index fully removed earlier was created again after every increase
\* of the value had been made.
C31_Witness ==
  /\ op.call.name = "CreatePosition" /\ op.err = "none"
  /\ op.call.index \in removed
  /\ numInc = MaxIncreases
  /\ \A d \in Denoms : AmountOf(accValue, d) > 0

(***************************************************************************)
(* C32.  Positions are independent of each other.                          *)
(***************************************************************************)
\* The record of index j, if any.
RecordOf(st, j) ==
  IF Key(j) \in DOMAIN st THEN << st[Key(j)] >> ELSE << >>

\* The total rewards computed for index j, if it has a record.
TotalOf(value, st, j) ==
  IF Key(j) \in DOMAIN st
    THEN << getTotalRewards(value, st[Key(j)], EmptyCoins) >>
    ELSE << >>

\* C32: a CreatePosition, AddToPosition, RemoveFromPosition or ClaimRewards
\* on index i, whatever its outcome, leaves the stored record and the
\* computed total rewards of every other index j unchanged.
C32_OthersUnchanged ==
  [][op'.call.name \in PositionOps =>
       \A j \in Indexes \ {op'.call.index} :
         /\ RecordOf(store', j) = RecordOf(store, j)
         /\ TotalOf(accValue', store', j) = TotalOf(accValue, store, j)]_vars

\* A position was removed in full while the other index held a record with
\* rewards to claim.
C32_Witness ==
  /\ op.call.name = "RemoveFromPosition" /\ op.err = "none"
  /\ Key(op.call.index) \notin DOMAIN store
  /\ \E j \in Live : ComputedRewards(j, "uX") > 0

(***************************************************************************)
(* C33.  Records are scoped by accumulator.                                *)
(***************************************************************************)
\* The records of the accumulator `name`.
Scope(st, name) ==
  [k \in {formatPositionPrefixKey(name, i) : i \in Indexes} \cap DOMAIN st |->
     st[k]]

\* C33: writing, reading or deleting the record at index i of accumulator
\* A changes no record of a different accumulator B, at the same index or
\* another, and what a read of A returns does not depend on B's records.
C33_ScopedByAccumulator ==
  [][\A a \in Accums :
       op'.accum = a =>
         /\ \A b \in Accums \ {a} : Scope(store', b) = Scope(store, b)
         /\ op'.call.name = "getPosition" =>
               op'.result = getPosition(Scope(store, a), a, op'.call.index)]_vars

\* A record was written under an index of one accumulator while the other
\* accumulator holds a different record under the same index.
C33_Witness ==
  /\ op.call.name = "initOrUpdatePosition"
  /\ \E b \in Accums \ {op.accum} :
       /\ formatPositionPrefixKey(b, op.call.index) \in DOMAIN store
       /\ store[formatPositionPrefixKey(b, op.call.index)]
            # store[formatPositionPrefixKey(op.accum, op.call.index)]

(***************************************************************************)
(* C34.  The administrative override never takes rewards away.             *)
(***************************************************************************)
\* The last call was SetAccumulatorValueAdmin and validateAccumulatorValue
\* returned `err` for its custom value against the value it found.
AdminValidated(err) ==
  /\ op.call.name = "SetAccumulatorValueAdmin"
  /\ validateAccumulatorValue(op.call.coins, op.old) = err

\* C34: a SetAccumulatorValueAdmin whose customValue fails
\* validateAccumulatorValue against the accumulator's current value leaves
\* the value unchanged, and one that passes lowers no live position's
\* computed total rewards in any denomination.
C34_OverrideKeepsRewards ==
  op.call.name = "SetAccumulatorValueAdmin" =>
    IF AdminValidated("none")
      THEN \A i \in Live :
             /\ ~getTotalRewards(accValue, store[Key(i)], EmptyCoins).panic
             /\ \A d \in Denoms :
                  ComputedRewards(i, d)
                    >= AmountOf(getTotalRewards(op.old, store[Key(i)],
                                                EmptyCoins).rewards, d)
      ELSE accValue = op.old /\ op.err # "none"

\* An override passed and raised the rewards of a live position.
C34_Witness ==
  /\ AdminValidated("none")
  /\ \E i \in Live :
       ComputedRewards(i, "uX")
         > AmountOf(getTotalRewards(op.old, store[Key(i)],
                                    EmptyCoins).rewards, "uX")

\* An override was refused for a value lower than the current one while a
\* position was live.
C34_WitnessRefused ==
  /\ AdminValidated("NegativeAccDifferenceError")
  /\ Live # {}

(***************************************************************************)
(* C35.  UnlockAndMigrate accounts for every share in the lock.            *)
(***************************************************************************)
\* The last call was UnlockAndMigrate.
Migrated == op.call.name = "UnlockAndMigrate"

\* The link, the concentrated pool and the sender's lock all exist.
AllChecksPass ==
  op.world.link /\ op.world.concentrated /\ op.world.lockValid

\* The positions in the calls made of the calls named `name`.
CallsNamed(name) == {i \in 1..Len(op.calls) : op.calls[i].name = name}

\* C35: with s shares in the lock, a zero sharesToMigrate exits all s
\* shares and re-locks none; a sharesToMigrate greater than s fails with an
\* error, nothing exited; otherwise exactly sharesToMigrate is exited and
\* s - sharesToMigrate is re-locked in a new gamm lock if and only if it is
\* not zero, gammLockId being returned as 0 when nothing remains.
C35_ShareAccounting ==
  (Migrated /\ AllChecksPass) =>
    LET inLock == op.world.shares
        given == op.call.sharesToMigrate
        exits == CallsNamed("ExitPool")
        locks == CallsNamed("CreateLock")
        migrated == IF given = 0 THEN inLock ELSE given
    IN  /\ Cardinality(exits) <= 1 /\ Cardinality(locks) <= 1
        /\ given > inLock => (op.err # "none" /\ exits = {} /\ locks = {})
        /\ given <= inLock =>
             /\ \A i \in exits : op.calls[i].amount = migrated
             /\ \A i \in locks :
                  /\ op.calls[i].amount = inLock - migrated
                  /\ inLock - migrated # 0
                  /\ exits # {} /\ \A e \in exits : e < i
             /\ op.err = "none" =>
                  /\ exits # {}
                  /\ (locks # {}) <=> (inLock - migrated # 0)
                  /\ (op.out.gammLockId = 0) <=> (inLock - migrated = 0)
             /\ given = 0 => locks = {}

\* A zero sharesToMigrate migrated a lock of several shares.
C35_Witness ==
  /\ Migrated /\ op.err = "none"
  /\ op.call.sharesToMigrate = 0
  /\ op.world.shares = MaxLockShares
  /\ op.out.gammLockId = 0

\* Part of a lock was migrated and the rest re-locked.
C35_WitnessRelocked ==
  /\ Migrated /\ op.err = "none"
  /\ op.call.sharesToMigrate = 1
  /\ op.world.shares = MaxLockShares
  /\ op.out.gammLockId # 0

\* More than the lock holds was asked for.
C35_WitnessTooMany ==
  /\ Migrated /\ AllChecksPass
  /\ op.call.sharesToMigrate > op.world.shares

(***************************************************************************)
(* C36.  UnlockAndMigrate: the order of the steps, the superfluid status.  *)
(***************************************************************************)
\* Every call named b was made after a call named a.
Before(a, b) ==
  \A j \in CallsNamed(b) : \E i \in CallsNamed(a) : i < j

\* The calls that superfluid-delegate the new concentrated lock.
ConcentratedDelegations ==
  {i \in CallsNamed("SuperfluidDelegate") : op.calls[i].lock = LockId + 1}

\* C36: a superfluid delegated lock is undelegated before it is
\* force-unlocked, the force-unlock precedes the exit of the balancer pool,
\* the exit precedes the creation of the full range position; a delegated
\* lock yields a locked position whose lock is superfluid-delegated to the
\* validator the lock was delegated to, a lock that is not delegated yields
\* an unlocking position whose lock is not delegated.
C36_OrderAndStatus ==
  Migrated =>
    /\ op.world.delegated =>
         Before("SuperfluidUndelegateToConcentratedPosition", "ForceUnlock")
    /\ Before("ForceUnlock", "ExitPool")
    /\ Before("ExitPool", "CreateFullRangePositionLocked")
    /\ Before("ExitPool", "CreateFullRangePositionUnlocking")
    /\ op.world.delegated =>
         /\ CallsNamed("CreateFullRangePositionUnlocking") = {}
         /\ \A i \in ConcentratedDelegations :
              /\ op.calls[i].val = op.world.validator
              /\ \E j \in CallsNamed("CreateFullRangePositionLocked") : j < i
         /\ op.err = "none" =>
              /\ CallsNamed("CreateFullRangePositionLocked") # {}
              /\ ConcentratedDelegations # {}
              /\ op.out.concentratedLockId = LockId + 1
    /\ ~op.world.delegated =>
         /\ CallsNamed("SuperfluidUndelegateToConcentratedPosition") = {}
         /\ CallsNamed("CreateFullRangePositionLocked") = {}
         /\ ConcentratedDelegations = {}
         /\ op.err = "none" =>
              CallsNamed("CreateFullRangePositionUnlocking") # {}

\* A lock delegated to valB was migrated.
C36_Witness ==
  /\ Migrated /\ op.err = "none"
  /\ op.world.delegated /\ op.world.validator = "valB"

\* A lock that was not delegated was migrated.
C36_WitnessNotDelegated ==
  /\ Migrated /\ op.err = "none"
  /\ ~op.world.delegated

(***************************************************************************)
(* C37.  UnlockAndMigrate: nothing is done before the three checks.        *)
(***************************************************************************)
\* C37: unless a link from the balancer pool to a concentrated pool
\* exists, the linked pool is a concentrated pool and the lock is validated
\* for the sender and the pool, UnlockAndMigrate makes no call that changes
\* state and returns the error with every other output zero.
C37_NothingBeforeChecks ==
  (Migrated /\ ~AllChecksPass) =>
    /\ op.calls = << >>
    /\ op.err # "none"
    /\ op.out = ZeroOutputs
    /\ store = op.world

\* The lock did not validate (it had been migrated already) while the link
\* and the concentrated pool existed.
C37_Witness ==
  /\ Migrated
  /\ op.world.link /\ op.world.concentrated /\ ~op.world.lockValid
  /\ op.world.shares = MaxLockShares

\* No link existed.
C37_WitnessNoLink ==
  Migrated /\ ~op.world.link /\ op.err = "GetLinkedConcentratedPoolID"

(***************************************************************************)
(* C38.  HandleCreatingCLPoolAndLinkToCFMMProposal.                        *)
(***************************************************************************)
\* The last call was the proposal handler.
Handled == op.call.name = "HandleCreatingCLPoolAndLinkToCFMMProposal"

\* The record's balancer pool exists, has exactly two liquidity denoms and
\* one of them is the record's Denom0.
Eligible(record) ==
  /\ record.BalancerPoolId \in DOMAIN CFMMPools
  /\ Len(CFMMPools[record.BalancerPoolId]) = 2
  /\ \E n \in 1..2 : CFMMPools[record.BalancerPoolId][n] = record.Denom0

\* The pool's denom that is not the record's Denom0.
OtherDenom(record) ==
  LET pool == CFMMPools[record.BalancerPoolId] IN
  pool[CHOOSE n \in 1..2 : pool[n] # record.Denom0]

\* The pools created and the links set are those of the first records, in
\* order, each for an eligible record, denom1 being the pool's other
\* denom.
InRecordOrder ==
  /\ Len(op.links) <= Len(op.created)
  /\ Len(op.created) <= Len(op.call.records)
  /\ \A j \in 1..Len(op.created) :
       /\ Eligible(op.call.records[j])
       /\ op.created[j].denom0 = op.call.records[j].Denom0
       /\ op.created[j].denom1 = OtherDenom(op.call.records[j])
  /\ \A j \in 1..Len(op.links) :
       op.links[j] = [BalancerPoolId |-> op.call.records[j].BalancerPoolId,
                      ClPoolId |-> op.created[j].id]
  /\ op.err = "none" => Len(op.links) = Len(op.call.records)
  /\ op.err # "none" => Len(op.links) < Len(op.call.records)
  /\ \A j \in 1..Len(op.call.records) :
       ~Eligible(op.call.records[j]) =>
         (op.err # "none" /\ Len(op.created) < j)

\* C38 as stated: the records are processed in order, a pool is created
\* and linked only for a record whose balancer pool has exactly 2 denoms,
\* one of them Denom0, and at the first record that fails the handler
\* returns having created and linked no pool for that record or a later
\* one.
C38_NothingForFailedAsStated ==
  Handled => (InRecordOrder /\ Len(op.created) = Len(op.links))

\* C38, amended: as above, but at the first record that fails no pool is
\* linked for that record and none is created or linked for a later one; a
\* pool has been created for the failing record exactly when it is the
\* link that failed.
C38_NothingLinkedForFailed ==
  Handled =>
    /\ InRecordOrder
    /\ Len(op.created) <= Len(op.links) + 1
    /\ (Len(op.created) = Len(op.links) + 1)
         <=> (op.err = "OverwriteMigrationRecordsAndRedirectDistrRecords")

\* The link of the second record failed after the first record's pool was
\* created and linked and the second record's pool was created.
C38_Witness ==
  /\ Handled
  /\ op.err = "OverwriteMigrationRecordsAndRedirectDistrRecords"
  /\ Len(op.links) = 1 /\ Len(op.created) = 2

\* A record whose pool has three denoms followed one that was linked.
C38_WitnessThreeDenoms ==
  /\ Handled
  /\ op.err = "can only have 2 denoms in CL pool"
  /\ Len(op.links) = 1 /\ Len(op.created) = 1

(***************************************************************************)
(* C39.  CreatePreUpgradeState never deadlocks.                            *)
(***************************************************************************)
\* Goroutine k is at its send on the error channel.
AtSend(k) ==
  /\ pc.at \in {"go", "Wait"}
  /\ k \in 1..Len(workers)
  /\ workers[k].at <= Len(Program(k))
  /\ Program(k)[workers[k].at] = "send"

\* Every goroutine of the phase was started and has ended.
AllEnded ==
  /\ Len(workers) = Len(Programs[pc.phase])
  /\ \A k \in 1..Len(workers) : workers[k].at = Len(Program(k)) + 2

\* The first value of the sequence that is not nil, nil if there is none.
FirstError(sent) ==
  IF \A n \in 1..Len(sent) : sent[n] = "nil" THEN "nil"
  ELSE sent[CHOOSE n \in 1..Len(sent) :
              sent[n] # "nil" /\ \A m \in 1..(n - 1) : sent[m] = "nil"]

\* CreatePreUpgradeState is running.
InPreUpgrade ==
  pc.at \in {"GetDefaultNode", "Add", "go", "Wait", "close", "range"}

\* Some goroutine of CreatePreUpgradeState can take a step.
PreUpgradeStep == MainStep \/ \E k \in Workers : WorkerStep(k)

\* What holds in every state of every interleaving: some goroutine can
\* step until the function has returned, a goroutine at its send finds room
\* in the channel and the channel open, the channel is closed only after
\* every goroutine has ended, and what is returned after the goroutines ran
\* is the first non-nil error sent, nil if both sent nil.
C39_Safe ==
  /\ InPreUpgrade => ENABLED PreUpgradeStep
  /\ wg >= 0
  /\ \A k \in Workers :
       AtSend(k) => Len(errCh.buf) < ErrChCapacity /\ ~errCh.closed
  /\ errCh.closed => AllEnded /\ Len(errCh.sent) = ErrChCapacity
  /\ (pc.at = "returned" /\ ret.fn = "CreatePreUpgradeState"
        /\ pc.phase >= 1)
       => /\ Len(errCh.sent) = 2
          /\ ret.err = FirstError(errCh.sent)

\* C39: CreatePreUpgradeState never deadlocks: in every interleaving of its
\* goroutines C39_Safe holds throughout, every wg.Wait() of a phase
\* returns, and the function returns.
C39_NoDeadlock ==
  /\ []C39_Safe
  /\ \A p \in 1..Len(Programs) :
       (pc.at = "Wait" /\ pc.phase = p) ~> ~(pc.at = "Wait" /\ pc.phase = p)
  /\ (pc.at = "GetDefaultNode") ~> (pc.at = "returned")

\* Chain B's goroutine sent nil first, chain A's sent its error second, and
\* that error was returned.
C39_Witness ==
  /\ pc.at = "returned" /\ ret.fn = "CreatePreUpgradeState"
  /\ errCh.sent = << "nil", "chainA error" >>
  /\ ret.err = "chainA error"

\* Both values were in the channel while the main goroutine waited for
\* goroutines still running.
C39_WitnessFull ==
  /\ pc.at = "Wait" /\ wg > 0
  /\ Len(errCh.buf) = ErrChCapacity

(***************************************************************************)
(* C40.  The init-file retry loop.                                         *)
(***************************************************************************)
\* C40: the init-file loop of ConfigureChain makes at most MaxRetries
\* read-and-unmarshal attempts, makes none after one that succeeded and
\* then goes on with the chain's initialization, and ConfigureChain returns
\* the unmarshal error if and only if MaxRetries attempts were made and
\* all of them failed.
C40_RetryLoop ==
  LET a == retry.attempts IN
  /\ Len(a) <= MaxRetries
  /\ \A n \in 1..(Len(a) - 1) : a[n] # "nil"
  /\ pc.at = "PurgeResource" => (a # << >> /\ a[Len(a)] = "nil")
  /\ (pc.at = "returned" /\ ret.err = "unmarshal error")
       <=> (Len(a) = MaxRetries /\ \A n \in 1..Len(a) : a[n] # "nil")

\* Every attempt for the second chain failed and the error was returned.
C40_Witness ==
  /\ pc.at = "returned" /\ ret.err = "unmarshal error"
  /\ retry.chain = NumChains
  /\ Len(retry.attempts) = MaxRetries

\* The last attempt allowed succeeded and the initialization went on.
C40_WitnessLastAttempt ==
  /\ pc.at = "PurgeResource"
  /\ Len(retry.attempts) = MaxRetries

====
